---- MODULE Spec2Model ----
(***************************************************************************)
(* State-machine model of the KaFlow-Py workflow engine:                   *)
(*   - the config registry of server/app.py (lazy loading of compiled      *)
(*     graphs, thread-id parsing),                                         *)
(*   - the graph compiler's routers (core/graph/builder.py) and the node   *)
(*     functions (core/graph/factory.py), agent loop included,             *)
(*   - the stream layer (core/graph/stream.py, graph_manager.py and the    *)
(*     SSE generator of server/app.py).                                    *)
(* Strings that the code splits on "_" are sequences of underscore-free    *)
(* tokens: "ops_agent" is <<"ops", "agent">>, so that split("_") and       *)
(* "_".join are SubSeq and \o.                                             *)
(***************************************************************************)
EXTENDS Integers, Sequences, FiniteSets, TLC

\* ------------------------------------------------------------------------
\* Bounds
\* ------------------------------------------------------------------------
MaxCompiles == 3
\* largest loop.max_iterations of the protocols run
MaxIterations == 4
\* tool calls in one AI message, other items astream delivers before them,
\* chunks of execute_graph_stream's astream
MaxCalls == 2
MaxExtras == 1
MaxChunks == 2

None == "None"
\* "no config id": Python's None or "" where the code tests `if config_id`
NoId == <<>>

VARIABLES
    \* --- config registry (server/app.py, graph_manager.py) ---
    config_dir,          \* the YAML files of core/config (fixed per run)
    config_file_cache,   \* _config_file_cache: sequence of ids, in dict order
    config_loaded,       \* _config_loaded
    graphs,              \* GraphRegistry._graphs: id -> compiled graph
    compiles,            \* number of build_from_protocol calls so far
    serving,             \* FALSE after the shutdown event
    last_call,           \* the last request handled and what it returned
    \* --- thread-id parsing (server/app.py) ---
    extract_call,        \* last _extract_config_id_from_thread_id call
    \* --- one run of a compiled graph (builder.py, factory.py) ---
    protocol,            \* the parsed protocol the graph was compiled from
    pc,                  \* the vertex being run and the position in it
    state,               \* the GraphState dict handed from node to node
    loop,                \* locals of _execute_agent_loop
    route,               \* the last decision of a router
    \* --- the event stream of one request (stream.py, graph_manager.py) ---
    stream,              \* the generators: pipeline, position, outcome
    events,              \* the SSE events yielded so far
    assembler,           \* ToolCallChunksAssembler
    runtime,             \* what astream has still to deliver
    \* --- the checkpoint store (memory/mongodb_checkpointer.py) ---
    collection,          \* the documents of the checkpoints collection
    clock,               \* datetime.now() as MongoDB stores it (milliseconds)
    put_log,             \* the put calls made so far, in order
    answer,              \* the last call of the store's API and its result
    \* --- tool-call id normalisation (core/graph/stream.py) ---
    clean_call,          \* the last _clean_tool_call_id call and its result
    \* --- concurrent chat-stream requests (server/app.py, stream.py) ---
    requests,            \* the chat-stream requests: thread id and position
    storage,             \* the checkpointer's storage: thread id -> writes
    \* --- the builder shared by all compilations (builder.py) ---
    conditional_paths,   \* LangGraphAutoBuilder._conditional_paths
    \* --- protocol validation (protocol_parser.py) ---
    validate_call        \* the last validate_protocol call and its result

varsR == <<config_dir, config_file_cache, config_loaded, graphs, compiles,
           serving, last_call>>
varsX == <<extract_call>>
varsG == <<protocol, pc, state, loop, route>>
varsS == <<stream, events, assembler, runtime>>
varsM == <<collection, clock, put_log, answer>>
varsC == <<clean_call>>
varsQ == <<requests, storage>>
varsB == <<conditional_paths>>
varsV == <<validate_call>>
vars == <<varsR, varsX, varsG, varsS, varsM, varsC, varsQ, varsB, varsV>>

\* ========================================================================
\* Part 1.  Config registry (server/app.py, core/graph/graph_manager.py)
\* ========================================================================
\* The YAML files a config directory can hold.  id is the file's `id` as a
\* string (token sequence); name is protocol.name; enabled/provider are
\* global_config.memory; builds says whether parse + build of the file
\* succeeds.
ConfigFilePool ==
    << [file |-> "f1", name |-> "flow", has_id |-> TRUE, id |-> <<"1">>,
        enabled |-> TRUE, provider |-> "mongodb", builds |-> TRUE],
       [file |-> "f2", name |-> "flow", has_id |-> TRUE, id |-> <<"agent">>,
        enabled |-> TRUE, provider |-> "memory", builds |-> TRUE],
       [file |-> "f3", name |-> "flow", has_id |-> TRUE, id |-> <<"ops", "agent">>,
        enabled |-> TRUE, provider |-> "mongodb", builds |-> TRUE],
       [file |-> "f4", name |-> "", has_id |-> TRUE, id |-> <<"a", "b", "c", "d">>,
        enabled |-> FALSE, provider |-> "memory", builds |-> TRUE],
       [file |-> "f5", name |-> "flow", has_id |-> TRUE, id |-> <<"9">>,
        enabled |-> TRUE, provider |-> "mongodb", builds |-> FALSE],
       [file |-> "f6", name |-> "flow", has_id |-> FALSE, id |-> <<>>,
        enabled |-> FALSE, provider |-> "memory", builds |-> TRUE],
       [file |-> "f7", name |-> "flow", has_id |-> TRUE, id |-> <<"r">>,
        enabled |-> TRUE, provider |-> "redis", builds |-> TRUE] >>

PoolIndex == 1..Len(ConfigFilePool)

\* ids a request may name: every id of the pool and one that no file has
UnknownId == <<"7">>
RequestIds == {ConfigFilePool[i].id : i \in {j \in PoolIndex : ConfigFilePool[j].has_id}}
                  \cup {UnknownId}

Usernames == {<<"u">>, <<"my", "u">>}
Uuids == {<<"x">>}
\* thread ids of history requests: well-formed ones and two with fewer than
\* three parts
HistoryThreads ==
    {u \o x \o k : u \in {<<"u">>}, x \in Uuids, k \in RequestIds}
        \cup {<<"x">>, <<"u", "x">>}

RECURSIVE SelectFiles(_, _)
\* the files of the pool that are in dir, as indexes in directory order
SelectFiles(i, dir) ==
    IF i > Len(ConfigFilePool) THEN <<>>
    ELSE (IF i \in dir THEN <<i>> ELSE <<>>) \o SelectFiles(i + 1, dir)

\* _load_config_file_mappings: the cache after the call and the loaded flag.
\* The scan maps id -> file for every file that has an id; it runs once.
ScanConfigDir(dir) ==
    SelectSeq(SelectFiles(1, dir), LAMBDA i : ConfigFilePool[i].has_id)

LoadedCache == IF config_loaded THEN config_file_cache ELSE ScanConfigDir(config_dir)

CacheIds(cache) == {ConfigFilePool[cache[j]].id : j \in 1..Len(cache)}

FileOfId(cache, id) ==
    CHOOSE i \in {cache[j] : j \in 1..Len(cache)} : ConfigFilePool[i].id = id

\* LangGraphAutoBuilder._create_checkpointer
CreateCheckpointer(f) ==
    IF ~f.enabled THEN None
    ELSE IF f.provider = "memory" THEN "MemorySaver"
    ELSE None

\* GraphManager.register_graph_from_file: parse, build and register under
\* graph_id, replacing whatever was registered there.  The result is the
\* registry, the build counter and whether an exception was raised.
RegisterGraphFromFile(g, n, i, id) ==
    LET f == ConfigFilePool[i] IN
    IF ~f.builds THEN [graphs |-> g, compiles |-> n, raised |-> TRUE]
    ELSE [graphs |-> [k \in (DOMAIN g) \cup {id} |->
                        IF k = id
                        THEN [build |-> n + 1, file |-> f.file,
                              checkpointer |-> CreateCheckpointer(f)]
                        ELSE g[k]],
          compiles |-> n + 1,
          raised |-> FALSE]

\* _extract_config_id_from_thread_id, on a cache that is already loaded
ExtractConfigId(thread_id, ids) ==
    LET parts == thread_id
        n == Len(parts)
        last(k) == SubSeq(parts, n - k + 1, n)
    IN  IF thread_id = <<>> THEN NoId
        ELSE IF n < 3 THEN NoId
        ELSE IF last(1) \in ids THEN last(1)
        ELSE IF n >= 2 /\ last(2) \in ids THEN last(2)
        ELSE IF n >= 3 /\ last(3) \in ids THEN last(3)
        ELSE NoId

\* no graph is being run
NoProtocol == [topology |-> "none"]
NoRun == [node |-> <<>>, phase |-> "idle", raised |-> FALSE]
NoState == [current_step |-> <<"idle">>]
NoLoop == [loop_count |-> 0, invocations |-> 0, exit |-> "none"]
NoRoute == [from_node |-> <<>>, goto_node |-> <<>>, target |-> <<>>, raised |-> FALSE]

\* no request is being streamed
NoStream == [pipeline |-> "none", registered |-> FALSE, pos |-> "idle",
             pending |-> <<>>, last |-> FALSE, cause |-> "none",
             cancelled |-> FALSE, outcome |-> "running"]
NoAssembler == [assembling |-> FALSE]
NoRuntime == [phase |-> "idle", ncalls |-> 0, cur |-> 1, rest |-> <<>>,
              extras |-> 0, args |-> <<>>, chunks |-> 0]

\* no call of the checkpoint store's API made yet
NoAnswer == [op |-> "none"]
\* no _clean_tool_call_id call made yet
NoCleanCall == [raw |-> <<>>, calls |-> 0, once |-> <<>>, twice |-> <<>>]

\* no chat-stream request has arrived, nothing is in the checkpointer
NoRequests == << >>
NoStorage == << >>
\* no builder has compiled anything
NoPaths == << >>
\* no validate_protocol call made yet
NoValidateCall == [called |-> FALSE]

\* no _extract_config_id_from_thread_id call made yet
NoExtractCall == [thread_id |-> <<>>, k |-> NoId, result |-> NoId]

\* The server after start-up: nothing cached, nothing registered.
InitRegistry ==
    /\ config_dir \in SUBSET PoolIndex
    /\ config_file_cache = <<>>
    /\ config_loaded = FALSE
    /\ graphs = << >>
    /\ compiles = 0
    /\ serving = TRUE
    /\ last_call = [op |-> "init"]
    /\ extract_call = NoExtractCall
    /\ protocol = NoProtocol
    /\ pc = NoRun
    /\ state = NoState
    /\ loop = NoLoop
    /\ route = NoRoute
    /\ stream = NoStream
    /\ events = <<>>
    /\ assembler = NoAssembler
    /\ runtime = NoRuntime
    /\ collection = {}
    /\ clock = 0
    /\ put_log = <<>>
    /\ answer = NoAnswer
    /\ clean_call = NoCleanCall
    /\ requests = NoRequests
    /\ storage = NoStorage
    /\ conditional_paths = NoPaths
    /\ validate_call = NoValidateCall

\* _ensure_graph_loaded, as chat_stream calls it
EnsureGraphLoaded(config_id) ==
    /\ serving
    /\ compiles < MaxCompiles
    /\ IF config_id \in DOMAIN graphs
       THEN /\ UNCHANGED <<config_file_cache, config_loaded, graphs, compiles>>
            /\ last_call' = [op |-> "ensure", id |-> config_id, ok |-> TRUE,
                             compiled |-> FALSE]
       ELSE /\ config_file_cache' = LoadedCache
            /\ config_loaded' = TRUE
            /\ IF config_id \notin CacheIds(LoadedCache)
               THEN /\ UNCHANGED <<graphs, compiles>>
                    /\ last_call' = [op |-> "ensure", id |-> config_id,
                                     ok |-> FALSE, compiled |-> FALSE]
               ELSE LET r == RegisterGraphFromFile(graphs, compiles,
                                  FileOfId(LoadedCache, config_id), config_id)
                    IN  /\ graphs' = r.graphs
                        /\ compiles' = r.compiles
                        /\ last_call' = [op |-> "ensure", id |-> config_id,
                                         ok |-> ~r.raised,
                                         compiled |-> ~r.raised]
    /\ UNCHANGED <<config_dir, serving>>
    /\ UNCHANGED <<varsX, varsG, varsS, varsM, varsC, varsQ, varsB, varsV>>

\* Does a checkpointer object offer the history API (get_history_messages,
\* get_flat_messages, get_thread_list)?  Neither None nor LangGraph's
\* MemorySaver does.
HasHistoryApi(cp) == cp \notin {None, "MemorySaver"}

\* The loaded graphs whose checkpointer offers the history API
\* (the "search the loaded graphs first" loop of the history endpoints).
LoadedWithHistoryApi(g) == {k \in DOMAIN g : HasHistoryApi(g[k].checkpointer)}

RECURSIVE ScanAndRegister(_, _, _, _)
\* The fallback loop of the history endpoints over _config_file_cache.items():
\* the first file with memory.enabled and provider "mongodb" whose registration
\* does not raise is registered (again, if it was registered already) and ends
\* the loop; a file whose registration raises is skipped.
ScanAndRegister(cache, j, g, n) ==
    IF j > Len(cache)
    THEN [graphs |-> g, compiles |-> n, used |-> NoId, checkpointer |-> None]
    ELSE LET f == ConfigFilePool[cache[j]] IN
         IF f.enabled /\ f.provider = "mongodb"
         THEN LET r == RegisterGraphFromFile(g, n, cache[j], f.id) IN
              IF r.raised THEN ScanAndRegister(cache, j + 1, g, n)
              ELSE [graphs |-> r.graphs, compiles |-> r.compiles, used |-> f.id,
                    checkpointer |-> r.graphs[f.id].checkpointer]
         ELSE ScanAndRegister(cache, j + 1, g, n)

\* The part the three history endpoints share: choose the config id (request
\* field, else parsed from the thread id), load it when it is not registered,
\* else fall back to the scan.  search_loaded says whether the endpoint first
\* looks among the loaded graphs (get_chat_history does, get_flat_messages
\* does not).
ResolveCheckpointer(config_id, thread_id, search_loaded) ==
    LET parsed == IF config_id # NoId THEN config_id
                  ELSE ExtractConfigId(thread_id, CacheIds(LoadedCache))
        extract_loads == config_id = NoId /\ thread_id # <<>> /\ Len(thread_id) >= 3
        keep == [graphs |-> graphs, compiles |-> compiles]
    IN  IF parsed # NoId
        THEN IF parsed \in DOMAIN graphs
             THEN keep @@ [loads |-> extract_loads, status |-> 200,
                           used |-> parsed,
                           checkpointer |-> graphs[parsed].checkpointer]
             ELSE IF parsed \notin CacheIds(LoadedCache)
             THEN keep @@ [loads |-> TRUE, status |-> 404, used |-> parsed,
                           checkpointer |-> None]
             ELSE LET r == RegisterGraphFromFile(graphs, compiles,
                                FileOfId(LoadedCache, parsed), parsed)
                  IN  IF r.raised
                      THEN keep @@ [loads |-> TRUE, status |-> 500,
                                    used |-> parsed, checkpointer |-> None]
                      ELSE [graphs |-> r.graphs, compiles |-> r.compiles,
                            loads |-> TRUE, status |-> 200, used |-> parsed,
                            checkpointer |-> r.graphs[parsed].checkpointer]
        ELSE IF search_loaded /\ LoadedWithHistoryApi(graphs) # {}
        THEN LET k == CHOOSE k \in LoadedWithHistoryApi(graphs) : TRUE IN
             keep @@ [loads |-> extract_loads, status |-> 200, used |-> k,
                      checkpointer |-> graphs[k].checkpointer]
        ELSE LET s == ScanAndRegister(LoadedCache, 1, graphs, compiles) IN
             [graphs |-> s.graphs, compiles |-> s.compiles, loads |-> TRUE,
              status |-> 200, used |-> s.used, checkpointer |-> s.checkpointer]

\* What a history endpoint leaves behind: the registry effects of
\* ResolveCheckpointer, and 400 when the checkpointer found has no history API.
HistoryRequest(op, config_id, thread_id, search_loaded) ==
    LET r == ResolveCheckpointer(config_id, thread_id, search_loaded) IN
    /\ serving
    /\ compiles < MaxCompiles
    /\ graphs' = r.graphs
    /\ compiles' = r.compiles
    /\ config_file_cache' = IF r.loads THEN LoadedCache ELSE config_file_cache
    /\ config_loaded' = (config_loaded \/ r.loads)
    /\ last_call' = [op |-> op, id |-> r.used,
                     status |-> IF r.status # 200 THEN r.status
                                ELSE IF HasHistoryApi(r.checkpointer) THEN 200
                                ELSE 400,
                     compiled |-> r.compiles # compiles]
    /\ UNCHANGED <<config_dir, serving>>
    /\ UNCHANGED <<varsX, varsG, varsS, varsM, varsC, varsQ, varsB, varsV>>

\* POST /api/chat/history
GetChatHistory(config_id, thread_id) ==
    HistoryRequest("history", config_id, thread_id, TRUE)

\* POST /api/chat/messages
GetFlatMessages(config_id, thread_id) ==
    HistoryRequest("messages", config_id, thread_id, FALSE)

\* POST /api/chat/threads: no config id and no thread id in the request
GetThreadList ==
    LET r == IF LoadedWithHistoryApi(graphs) # {}
             THEN LET k == CHOOSE k \in LoadedWithHistoryApi(graphs) : TRUE IN
                  [graphs |-> graphs, compiles |-> compiles, loads |-> FALSE,
                   used |-> k, checkpointer |-> graphs[k].checkpointer]
             ELSE ScanAndRegister(LoadedCache, 1, graphs, compiles)
                      @@ [loads |-> TRUE]
    IN  /\ serving
        /\ compiles < MaxCompiles
        /\ graphs' = r.graphs
        /\ compiles' = r.compiles
        /\ config_file_cache' = IF r.loads THEN LoadedCache ELSE config_file_cache
        /\ config_loaded' = (config_loaded \/ r.loads)
        /\ last_call' = [op |-> "threads", id |-> r.used,
                         status |-> IF HasHistoryApi(r.checkpointer)
                                    THEN 200 ELSE 400,
                         compiled |-> r.compiles # compiles]
        /\ UNCHANGED <<config_dir, serving>>
        /\ UNCHANGED <<varsX, varsG, varsS, varsM, varsC, varsQ, varsB, varsV>>

\* the shutdown event: the registry and the id cache are cleared
ShutdownEvent ==
    /\ serving
    /\ serving' = FALSE
    /\ graphs' = << >>
    /\ config_file_cache' = <<>>
    /\ last_call' = [op |-> "shutdown"]
    /\ UNCHANGED <<config_dir, config_loaded, compiles>>
    /\ UNCHANGED <<varsX, varsG, varsS, varsM, varsC, varsQ, varsB, varsV>>

NextR ==
    \/ \E id \in RequestIds : EnsureGraphLoaded(id)
    \/ \E id \in RequestIds \cup {NoId}, t \in HistoryThreads :
           GetChatHistory(id, t)
    \/ \E id \in RequestIds \cup {NoId}, t \in HistoryThreads :
           GetFlatMessages(id, t)
    \/ GetThreadList
    \/ ShutdownEvent

\* ========================================================================
\* Part 2.  Thread ids (server/app.py)
\* ========================================================================
\* thread-id construction: f"{username}_{uuid}_{config_id}"
MakeThreadId(u, x, k) == u \o x \o k

\* One call of _extract_config_id_from_thread_id on the thread id built from
\* username u, uuid x and config id k; the callee loads the id mappings when
\* the thread id has at least three parts.
ExtractFromThreadId(u, x, k) ==
    LET t == MakeThreadId(u, x, k) IN
    /\ extract_call' = [thread_id |-> t, k |-> k,
                        result |-> ExtractConfigId(t, CacheIds(LoadedCache))]
    /\ config_file_cache' = IF Len(t) >= 3 THEN LoadedCache ELSE config_file_cache
    /\ config_loaded' = (config_loaded \/ Len(t) >= 3)
    /\ UNCHANGED <<config_dir, graphs, compiles, serving, last_call>>
    /\ UNCHANGED <<varsG, varsS, varsM, varsC, varsQ, varsB, varsV>>

NextX == \E u \in Usernames, x \in Uuids, k \in RequestIds :
             ExtractFromThreadId(u, x, k)

\* ========================================================================
\* Part 3. One run of a compiled graph (core/graph/builder.py, factory.py)
\* ========================================================================
\* Node names are token sequences as well: "end_node" is <<"end", "node">>,
\* so that endswith('_end') is a test on the last token.
END == <<"__end__">>
SKIP == <<"__skip__">>
NoName == <<>>

Topologies == {"linear", "agent_cond", "cond_node"}
EndNames == {<<"end", "node">>, <<"finish">>, <<"end">>}
AgentTypes == {"agent", "react_agent"}
\* values of loop.no_tool_goto: unset, another node, the looping agent
\* itself, the end node under both names, the word "end", an unknown name
GotoTargets == {NoName, <<"agent", "b">>, <<"agent", "a">>, <<"end", "node">>,
                <<"finish">>, <<"end">>, <<"ghost">>}

WorkflowNode(name, type) == [name |-> name, type |-> type]
WorkflowEdge(f, t, c) == [from_node |-> f, to_node |-> t, condition |-> c]

\* workflow.nodes of the protocol
WorkflowNodes(p) ==
    <<WorkflowNode(<<"start">>, "start")>>
    \o (IF p.topology = "cond_node"
          THEN <<WorkflowNode(<<"check">>, "condition")>> ELSE <<>>)
    \o <<WorkflowNode(<<"agent", "a">>, "agent"),
         WorkflowNode(<<"agent", "b">>, "agent"),
         WorkflowNode(p.end_name, "end")>>

\* workflow.edges of the protocol
WorkflowEdges(p) ==
    CASE p.topology = "linear" ->
           <<WorkflowEdge(<<"start">>, <<"agent", "a">>, ""),
             WorkflowEdge(<<"agent", "a">>, <<"agent", "b">>, ""),
             WorkflowEdge(<<"agent", "b">>, p.end_name, "")>>
      [] p.topology = "agent_cond" ->
           <<WorkflowEdge(<<"start">>, <<"agent", "a">>, ""),
             WorkflowEdge(<<"agent", "a">>, <<"agent", "b">>, "success"),
             WorkflowEdge(<<"agent", "b">>, p.end_name, "")>>
      [] p.topology = "cond_node" ->
           <<WorkflowEdge(<<"start">>, <<"check">>, ""),
             WorkflowEdge(<<"check">>, <<"agent", "a">>, "is_a"),
             WorkflowEdge(<<"check">>, <<"agent", "b">>, "is_b"),
             WorkflowEdge(<<"agent", "a">>, p.end_name, ""),
             WorkflowEdge(<<"agent", "b">>, p.end_name, "")>>

NodeNames(p) == {WorkflowNodes(p)[i].name : i \in DOMAIN WorkflowNodes(p)}
NodeType(p, n) ==
    LET i == CHOOSE j \in DOMAIN WorkflowNodes(p) : WorkflowNodes(p)[j].name = n
    IN WorkflowNodes(p)[i].type

\* The loop block of an agent: only agent_a carries the protocol's loop
\* block, agent_b has the defaults (enable=false, no_tool_goto=null).
LoopInfo(p, n) ==
    IF n = <<"agent", "a">> THEN p.loop
    ELSE [enable |-> FALSE, max_iterations |-> 10, no_tool_goto |-> NoName]

\* the conditions block of the condition node
NodeConditions(p, n) == IF n = <<"check">> THEN {"is_a", "is_b"} ELSE {}

\* dict.get(key, default)
Get(d, key, default) == IF key \in DOMAIN d THEN d[key] ELSE default
\* d[key] = value
Put(d, key, value) ==
    [k \in DOMAIN d \cup {key} |-> IF k = key THEN value ELSE d[k]]

\* ProtocolParser.validate_protocol: the errors it lists.  agents is the set
\* of the names of parsed.agents; a node without agent_ref carries its agent
\* inline.  protocol.schema_version is not read.
ValidateProtocol(name, version, nodes, edges, agents) ==
    LET node_names == {nodes[i].name : i \in DOMAIN nodes}
        start_nodes == {i \in DOMAIN nodes : nodes[i].type = "start"}
        end_nodes == {i \in DOMAIN nodes : nodes[i].type = "end"}
    IN (IF name = "" THEN {"name is empty"} ELSE {})
       \cup (IF version = "" THEN {"version is empty"} ELSE {})
       \cup (IF nodes = <<>> THEN {"no node"} ELSE {})
       \cup (IF \E i \in DOMAIN edges : edges[i].from_node \notin node_names
               THEN {"unknown source node"} ELSE {})
       \cup (IF \E i \in DOMAIN edges : edges[i].to_node \notin node_names
               THEN {"unknown target node"} ELSE {})
       \cup (IF \E i \in DOMAIN nodes :
                    /\ nodes[i].type = "agent"
                    /\ Get(nodes[i], "agent_ref", NoName) # NoName
                    /\ Get(nodes[i], "agent_ref", NoName) \notin agents
               THEN {"unknown agent"} ELSE {})
       \cup (IF start_nodes = {} THEN {"no start node"}
            ELSE IF Cardinality(start_nodes) > 1 THEN {"more than one start node"}
            ELSE {})
       \cup (IF end_nodes = {} THEN {"no end node"} ELSE {})

\* the workflow and the version of the files of the config directory
FileWorkflow == [topology |-> "linear", end_name |-> <<"end", "node">>]
FileVersion == "1.0.0"

\* validate_protocol on the protocol parsed from a file of the pool
ValidationErrors(f) ==
    ValidateProtocol(f.name, FileVersion, WorkflowNodes(FileWorkflow),
                     WorkflowEdges(FileWorkflow), {})

\* --- builder.py ---------------------------------------------------------
\* _add_edges: the names collected for dynamic jumps
AllNodes(edges) ==
    {edges[i].from_node : i \in DOMAIN edges}
    \cup {edges[i].to_node :
            i \in {j \in DOMAIN edges :
                     edges[j].to_node \notin {<<"end", "node">>, <<"end">>, END}}}

\* str.endswith('_end')
EndsWithEnd(name) == Len(name) >= 2 /\ name[Len(name)] = "end"

\* _add_edges: the edge is wired to LangGraph's END
WiredToEND(e) == e.to_node = <<"end", "node">> \/ EndsWithEnd(e.to_node)

\* self._conditional_paths[source] after the first i edges, as the ordered
\* items of the dict (a repeated condition keeps its place, takes the new
\* target)
RECURSIVE ConditionalPaths(_, _, _)
ConditionalPaths(edges, source, i) ==
    IF i = 0 THEN <<>>
    ELSE LET prev == ConditionalPaths(edges, source, i - 1)
             e == edges[i]
         IN IF e.from_node # source \/ WiredToEND(e) \/ e.condition = ""
              THEN prev
              ELSE IF \E j \in DOMAIN prev : prev[j].condition = e.condition
                     THEN [j \in DOMAIN prev |->
                             IF prev[j].condition = e.condition
                               THEN [prev[j] EXCEPT !.target = e.to_node]
                               ELSE prev[j]]
                     ELSE Append(prev, [condition |-> e.condition,
                                        target |-> e.to_node])

\* _add_dynamic_edge: the keys of path_map (every key maps to itself)
DynamicPathMap(from_node, default_to_node, all_nodes) ==
    {default_to_node} \cup (all_nodes \ {from_node}) \cup {END}

\* The add_conditional_edges calls _add_edges makes for one source, in
\* order. A conditional edge registers master_condition_func only when it
\* is the first conditional edge of its source, with the path_map of that
\* moment.
RECURSIVE Branches(_, _, _)
Branches(edges, source, i) ==
    IF i = 0 THEN <<>>
    ELSE LET prev == Branches(edges, source, i - 1)
             e == edges[i]
         IN IF e.from_node # source THEN prev
            ELSE IF WiredToEND(e)
              THEN Append(prev, [kind |-> "dynamic", default_to_node |-> END,
                                 path_map |-> DynamicPathMap(source, END,
                                                             AllNodes(edges))])
            ELSE IF e.condition # ""
              THEN IF Len(ConditionalPaths(edges, source, i)) = 1
                        /\ Len(ConditionalPaths(edges, source, i - 1)) = 0
                     THEN Append(prev, [kind |-> "master",
                                        default_to_node |-> END,
                                        path_map |-> {e.to_node, END, SKIP}])
                     ELSE prev
            ELSE Append(prev, [kind |-> "dynamic", default_to_node |-> e.to_node,
                               path_map |-> DynamicPathMap(source, e.to_node,
                                                           AllNodes(edges))])

\* routing_func of _add_dynamic_edge: the vertex returned and the state it
\* leaves
RoutingFunc(s, from_node, default_to_node, all_nodes) ==
    IF s.goto_node # NoName
      THEN [state |-> [s EXCEPT !.goto_node = NoName],
            result |-> IF s.goto_node = <<"end">> THEN END
                       ELSE IF s.goto_node \in all_nodes THEN s.goto_node
                       ELSE default_to_node]
      ELSE [state |-> s, result |-> default_to_node]

\* master_condition_func of _add_conditional_edge; paths is
\* self._conditional_paths[source_node] at the time of the call
MasterConditionFunc(s, source_node, paths) ==
    LET node_output == Get(s.node_outputs, source_node, [none |-> TRUE])
        condition_results == Get(node_output, "condition_results", << >>)
        hits == {i \in DOMAIN paths :
                    /\ paths[i].condition \in DOMAIN condition_results
                    /\ condition_results[paths[i].condition]}
    IN [state |-> s,
        result |-> IF /\ source_node \in DOMAIN s.node_outputs
                      /\ Get(node_output, "node_type", None) = "condition"
                      /\ hits # {}
                     THEN paths[CHOOSE i \in hits : \A j \in hits : i <= j].target
                     ELSE END]

\* _find_entry_point
FindEntryPoint(p) ==
    LET starts == {i \in DOMAIN WorkflowNodes(p) : WorkflowNodes(p)[i].type = "start"}
    IN IF starts # {}
         THEN WorkflowNodes(p)[CHOOSE i \in starts : \A j \in starts : i <= j].name
         ELSE WorkflowNodes(p)[1].name

\* --- factory.py ---------------------------------------------------------
\* Message contents are word sequences; `x in y` on strings is containment
\* of a contiguous run of words.
HumanMessage(c) == [type |-> "human", content |-> c, tool_calls |-> FALSE]
AIMessage(c) == [type |-> "ai", content |-> c, tool_calls |-> FALSE]
AIToolCallMessage == [type |-> "ai", content |-> <<>>, tool_calls |-> TRUE]
ToolMessage(c) == [type |-> "tool", content |-> c, tool_calls |-> FALSE]
SystemMessage(c) == [type |-> "system", content |-> c, tool_calls |-> FALSE]

UserInput == <<"hi">>
\* what the mocked LLM may answer
Contents == {<<>>, <<"step">>, <<"Task", "Completed">>, <<"DONE">>}
\* loop.force_exit_keywords of the looping agent
ForceExitKeywords == {<<"DONE">>}

\* str.lower(), word by word
LowerWord(w) ==
    CASE w = "Task" -> "task"
      [] w = "Completed" -> "completed"
      [] w = "DONE" -> "done"
      [] OTHER -> w
Lower(c) == [i \in DOMAIN c |-> LowerWord(c[i])]

\* phrase in c
Contains(c, phrase) ==
    \E i \in 0..(Len(c) - Len(phrase)) : SubSeq(c, i + 1, i + Len(phrase)) = phrase

\* completion_indicators of _is_task_completed (the entries that the words
\* of Contents can spell; the bracketed and the Chinese markers cannot occur)
CompletionIndicators ==
    {<<"final", "answer:">>, <<"analysis", "complete:">>,
     <<"diagnosis", "complete:">>, <<"conclusion:">>,
     <<"##", "final", "answer">>, <<"##", "analysis", "complete">>,
     <<"##", "conclusion">>, <<"task", "completed">>,
     <<"analysis", "finished">>, <<"diagnosis", "finished">>}

\* _check_contextual_completion
CheckContextualCompletion(response_lower) ==
    /\ \E w \in {<<"finished">>, <<"completed">>} : Contains(response_lower, w)
    /\ ~ \E fp \in {<<"not", "completed">>, <<"not", "finished">>,
                    <<"incomplete">>, <<"unfinished">>} :
           Contains(response_lower, fp)
    /\ \E ctx \in {<<"analysis", "completed">>, <<"diagnosis", "completed">>,
                   <<"task", "completed">>, <<"successfully", "completed">>,
                   <<"check", "completed">>} :
           Contains(response_lower, ctx)

IsTaskCompletedCaseSensitive(response_content, force_exit_keywords) ==
    /\ response_content # <<>>
    /\ \/ \E keyword \in force_exit_keywords :
             Contains(response_content, Lower(keyword))
       \/ \E indicator \in CompletionIndicators :
             Contains(response_content, indicator)
       \/ CheckContextualCompletion(response_content)

\* _is_task_completed
IsTaskCompleted(response_content, force_exit_keywords) ==
    /\ response_content # <<>>
    /\ \/ \E keyword \in force_exit_keywords :
             Contains(Lower(response_content), Lower(keyword))
       \/ \E indicator \in CompletionIndicators :
             Contains(Lower(response_content), indicator)
       \/ CheckContextualCompletion(Lower(response_content))

\* _check_has_tool_calls looking at the newest message only
CheckHasToolCallsLatestOnly(messages) ==
    /\ messages # <<>>
    /\ \/ messages[Len(messages)].type = "tool"
       \/ messages[Len(messages)].tool_calls

\* _check_has_tool_calls
CheckHasToolCalls(messages) ==
    \E i \in DOMAIN messages :
        messages[i].type = "tool" \/ messages[i].tool_calls

\* _extract_final_response: the last message with content, else str() of
\* the last message
ExtractFinalResponse(messages) ==
    IF messages = <<>> THEN <<>>
    ELSE LET with_content == {i \in DOMAIN messages : messages[i].content # <<>>}
         IN IF with_content # {}
              THEN messages[CHOOSE i \in with_content :
                               \A j \in with_content : j <= i].content
              ELSE <<"repr">>

\* What one agent.ainvoke can do: raise, or answer with some content, for
\* a ReAct agent possibly after a tool round.
Replies(agent_type) ==
    {[raises |-> TRUE, tools |-> FALSE, content |-> <<>>]}
    \cup {[raises |-> FALSE, tools |-> t, content |-> c] :
             t \in (IF agent_type = "react_agent" THEN BOOLEAN ELSE {FALSE}),
             c \in Contents}

\* response['messages'] of a ReAct agent invoked on messages
ReactMessages(messages, reply) ==
    messages
    \o (IF reply.tools THEN <<AIToolCallMessage, ToolMessage(<<"result">>)>>
        ELSE <<>>)
    \o <<AIMessage(reply.content)>>

AgentType(p, n) == IF n = <<"agent", "a">> THEN p.agent_type ELSE "agent"

\* f"<tag>:<node name>"
Step(tag, n) == [tag |-> tag, node |-> n]

\* the state handed to astream: execute_graph_stream's initial_state
InitialState ==
    [messages |-> <<>>, current_step |-> Step("init", NoName),
     goto_node |-> NoName, node_outputs |-> << >>, final_response |-> <<>>]

\* start_node
StartNodeState(s, n) ==
    [s EXCEPT !.messages = IF s.messages = <<>> /\ UserInput # <<>>
                             THEN <<HumanMessage(UserInput)>> ELSE @,
              !.current_step = Step("started", n),
              !.node_outputs = Put(@, n, [status |-> "completed",
                                          outputs |-> UserInput])]

\* end_node
EndNodeState(s, n) ==
    [s EXCEPT !.current_step = Step("completed", n),
              !.node_outputs = Put(@, n, [status |-> "completed",
                                          outputs |-> s.final_response])]

\* condition_node, its conditions having evaluated to condition_results
ConditionNodeState(s, n, condition_results) ==
    [s EXCEPT !.node_outputs = Put(@, n, [condition_results |-> condition_results,
                                          node_type |-> "condition"]),
              !.current_step = Step("", n)]

\* agent_node, the except branch
AgentFailedState(s, n) ==
    [s EXCEPT !.final_response = <<"Agent", "error">>,
              !.current_step = Step("agent_failed", n),
              !.node_outputs = Put(@, n, [status |-> "failed",
                                          error |-> <<"error">>,
                                          outputs |-> <<"Agent", "error">>]),
              !.messages = Append(@, AIMessage(<<"Agent", "error">>))]

\* agent_node after _execute_agent_loop returned (final_response, loop_count)
AgentLoopCompletedState(s, n, final_response, loop_count, max_iterations) ==
    [s EXCEPT !.node_outputs = Put(@, n, [outputs |-> final_response,
                                          status |-> "completed",
                                          loop_count |-> loop_count,
                                          max_iterations |-> max_iterations]),
              !.final_response = final_response,
              !.current_step = Step("agent_completed", n)]

\* agent_node after _execute_agent_single returned final_response
AgentSingleCompletedState(s, n, final_response) ==
    [s EXCEPT !.node_outputs = Put(@, n, [outputs |-> final_response,
                                          status |-> "completed"]),
              !.final_response = final_response,
              !.current_step = Step("agent_completed", n)]

LoopContinuesInclusive(loop_count, max_iterations) == loop_count <= max_iterations

\* the loop condition of _execute_agent_loop
LoopContinues(loop_count, max_iterations) == loop_count < max_iterations

\* --- the run -----------------------------------------------------------
\* A graph compiled from one protocol of the pool is started on the entry
\* point with execute_graph_stream's initial state.
InitGraph ==
    /\ config_dir = {}
    /\ config_file_cache = <<>>
    /\ config_loaded = FALSE
    /\ graphs = << >>
    /\ compiles = 0
    /\ serving = TRUE
    /\ last_call = [op |-> "init"]
    /\ extract_call = NoExtractCall
    /\ protocol \in [topology : Topologies, end_name : EndNames,
                     agent_type : AgentTypes,
                     loop : [enable : BOOLEAN,
                             max_iterations : 1..MaxIterations,
                             no_tool_goto : GotoTargets]]
    /\ pc = [node |-> FindEntryPoint(protocol), phase |-> "enter",
             raised |-> FALSE]
    /\ state = InitialState
    /\ loop = NoLoop
    /\ route = NoRoute
    /\ stream = NoStream
    /\ events = <<>>
    /\ assembler = NoAssembler
    /\ runtime = NoRuntime
    /\ collection = {}
    /\ clock = 0
    /\ put_log = <<>>
    /\ answer = NoAnswer
    /\ clean_call = NoCleanCall
    /\ requests = NoRequests
    /\ storage = NoStorage
    /\ conditional_paths = NoPaths
    /\ validate_call = NoValidateCall

AtNode(type, phase) ==
    /\ pc.phase = phase
    /\ NodeType(protocol, pc.node) = type

\* the node function returned, having caught an exception or not: the
\* router of the vertex runs next
Returned(raised) == [pc EXCEPT !.phase = "route", !.raised = raised]

StartNode ==
    /\ AtNode("start", "enter")
    /\ state' = StartNodeState(state, pc.node)
    /\ pc' = Returned(FALSE)
    /\ UNCHANGED <<protocol, loop, route>>
    /\ UNCHANGED <<varsR, varsX, varsS, varsM, varsC, varsQ, varsB, varsV>>

EndNode ==
    /\ AtNode("end", "enter")
    /\ state' = EndNodeState(state, pc.node)
    /\ pc' = Returned(FALSE)
    /\ UNCHANGED <<protocol, loop, route>>
    /\ UNCHANGED <<varsR, varsX, varsS, varsM, varsC, varsQ, varsB, varsV>>

ConditionNode(condition_results) ==
    /\ AtNode("condition", "enter")
    /\ state' = ConditionNodeState(state, pc.node, condition_results)
    /\ pc' = Returned(FALSE)
    /\ UNCHANGED <<protocol, loop, route>>
    /\ UNCHANGED <<varsR, varsX, varsS, varsM, varsC, varsQ, varsB, varsV>>

\* agent_node up to the call of _execute_agent_loop / _execute_agent_single:
\* building the LLM config, the tools and the agent may raise, which the
\* except branch of agent_node turns into a failed node.
AgentNodeEnter(raises) ==
    /\ AtNode("agent", "enter")
    /\ IF raises
         THEN /\ state' = AgentFailedState(state, pc.node)
              /\ pc' = Returned(TRUE)
              /\ UNCHANGED loop
         ELSE IF LoopInfo(protocol, pc.node).enable
           THEN /\ state' = [state EXCEPT !.messages =
                               IF @ = <<>> THEN <<HumanMessage(UserInput)>> ELSE @]
                /\ loop' = [loop_count |-> 0, invocations |-> 0, exit |-> "none"]
                /\ pc' = [pc EXCEPT !.phase = "loop"]
           ELSE /\ pc' = [pc EXCEPT !.phase = "single"]
                /\ UNCHANGED <<state, loop>>
    /\ UNCHANGED <<protocol, route>>
    /\ UNCHANGED <<varsR, varsX, varsS, varsM, varsC, varsQ, varsB, varsV>>

\* _execute_agent_single and the rest of agent_node
AgentSingle(reply) ==
    /\ AtNode("agent", "single")
    /\ LET n == pc.node
           seeded == IF state.messages = <<>>
                       THEN <<HumanMessage(UserInput)>> ELSE state.messages
       IN IF AgentType(protocol, n) = "react_agent"
            THEN IF reply.raises
                   THEN state' = AgentFailedState(
                                    [state EXCEPT !.messages = seeded], n)
                   ELSE LET messages == ReactMessages(seeded, reply)
                        IN state' = AgentSingleCompletedState(
                                       [state EXCEPT !.messages = messages], n,
                                       ExtractFinalResponse(messages))
            ELSE IF reply.raises
                   THEN state' = AgentFailedState(state, n)
                   ELSE state' = AgentSingleCompletedState(
                                    [state EXCEPT !.messages =
                                        @ \o <<HumanMessage(UserInput),
                                               AIMessage(reply.content)>>], n,
                                    reply.content)
    /\ pc' = Returned(reply.raises)
    /\ UNCHANGED <<protocol, loop, route>>
    /\ UNCHANGED <<varsR, varsX, varsS, varsM, varsC, varsQ, varsB, varsV>>

\* One pass of the while loop of _execute_agent_loop, one agent.ainvoke in
\* it. When the pass returns, or when it leaves the loop condition false,
\* the step runs on through the rest of agent_node (there is no await in
\* between).
AgentLoopIteration(reply) ==
    /\ AtNode("agent", "loop")
    /\ LoopContinues(loop.loop_count, LoopInfo(protocol, pc.node).max_iterations)
    /\ LET n == pc.node
           loop_config == LoopInfo(protocol, n)
           max_iterations == loop_config.max_iterations
           loop_count == loop.loop_count + 1
           invocations == loop.invocations + 1
           messages == IF AgentType(protocol, n) = "react_agent"
                         THEN ReactMessages(state.messages, reply)
                         ELSE Append(state.messages, AIMessage(reply.content))
           latest_message == messages[Len(messages)]
           s1 == [state EXCEPT !.messages = messages]
           Return(s, final_response, exit) ==
               /\ state' = AgentLoopCompletedState(s, n, final_response,
                                                   loop_count, max_iterations)
               /\ loop' = [loop_count |-> loop_count,
                           invocations |-> invocations, exit |-> exit]
               /\ pc' = Returned(exit = "error")
       IN IF reply.raises
            THEN Return(state, <<"loop", "error">>, "error")
          ELSE IF /\ loop_count = 1
                  /\ loop_config.no_tool_goto # NoName
                  /\ ~CheckHasToolCalls(messages)
            THEN Return([s1 EXCEPT !.goto_node = loop_config.no_tool_goto],
                        ExtractFinalResponse(messages), "goto")
          ELSE IF IsTaskCompleted(latest_message.content, ForceExitKeywords)
            THEN Return(s1, latest_message.content, "completed")
          ELSE IF LoopContinues(loop_count, max_iterations)
            THEN /\ state' = s1
                 /\ loop' = [loop_count |-> loop_count,
                             invocations |-> invocations, exit |-> "none"]
                 /\ UNCHANGED pc
          ELSE Return(s1, ExtractFinalResponse(messages), "cap")
    /\ UNCHANGED <<protocol, route>>
    /\ UNCHANGED <<varsR, varsX, varsS, varsM, varsC, varsQ, varsB, varsV>>

\* LangGraph evaluates the branch registered for the vertex that returned;
\* a result that is no key of the branch's path_map raises KeyError, a
\* vertex without a branch ends the run.
Route ==
    /\ pc.phase = "route"
    /\ LET n == pc.node
           edges == WorkflowEdges(protocol)
           branches == Branches(edges, n, Len(edges))
       IN IF branches = <<>>
            THEN /\ pc' = [node |-> END, phase |-> "done", raised |-> FALSE]
                 /\ route' = [from_node |-> n, goto_node |-> state.goto_node,
                              target |-> END, raised |-> FALSE]
                 /\ UNCHANGED state
            ELSE LET b == branches[1]
                     r == IF b.kind = "dynamic"
                            THEN RoutingFunc(state, n, b.default_to_node,
                                             AllNodes(edges))
                            ELSE MasterConditionFunc(
                                     state, n,
                                     ConditionalPaths(edges, n, Len(edges)))
                     known == r.result \in b.path_map
                     target == IF r.result = SKIP THEN END ELSE r.result
                 IN /\ state' = r.state
                    /\ pc' = IF ~known THEN [node |-> n, phase |-> "raised", raised |-> TRUE]
                             ELSE IF target = END
                               THEN [node |-> END, phase |-> "done", raised |-> FALSE]
                             ELSE [node |-> target, phase |-> "enter", raised |-> FALSE]
                    /\ route' = [from_node |-> n, goto_node |-> state.goto_node,
                                 target |-> IF known THEN target ELSE NoName,
                                 raised |-> ~known]
    /\ UNCHANGED <<protocol, loop>>
    /\ UNCHANGED <<varsR, varsX, varsS, varsM, varsC, varsQ, varsB, varsV>>

NextG ==
    \/ StartNode
    \/ EndNode
    \/ \E condition_results \in [NodeConditions(protocol, pc.node) -> BOOLEAN] :
          ConditionNode(condition_results)
    \/ \E raises \in BOOLEAN : AgentNodeEnter(raises)
    \/ \E reply \in Replies(AgentType(protocol, pc.node)) : AgentSingle(reply)
    \/ \E reply \in Replies(AgentType(protocol, pc.node)) : AgentLoopIteration(reply)
    \/ Route

\* ========================================================================
\* Part 4. The event stream of one chat request (core/graph/stream.py,
\*         graph_manager.py, _chat_stream_generator of server/app.py)
\* ========================================================================
\* A tool call's argument string is a sequence of JSON tokens; the chunks
\* of a streamed call split it at token boundaries.
NoCallId == <<>>
\* a parsed args value: a dict (its key/value pairs), or what
\* finalize_tool_call stores when json.loads fails
DictArgs(pairs) == [kind |-> "dict", pairs |-> pairs, raw |-> <<>>]
RawArgs(tokens) == [kind |-> "raw_args", pairs |-> {}, raw |-> tokens]
InvalidArgs == [kind |-> "invalid", pairs |-> {}, raw |-> <<>>]

IsKey(t) == t \in {"a", "b"}
IsValue(t) == t \in {"1", "2"}

\* the key/value pairs completed in tokens from position i on
RECURSIVE PairsFrom(_, _)
PairsFrom(tokens, i) ==
    IF /\ i + 2 <= Len(tokens)
       /\ IsKey(tokens[i]) /\ tokens[i + 1] = ":" /\ IsValue(tokens[i + 2])
      THEN {<<tokens[i], tokens[i + 2]>>}
           \cup (IF i + 3 <= Len(tokens) /\ tokens[i + 3] = ","
                   THEN PairsFrom(tokens, i + 4) ELSE {})
      ELSE {}

\* tokens[i..] is a comma-separated list of key : value up to position n
RECURSIVE IsPairList(_, _, _)
IsPairList(tokens, i, n) ==
    /\ i + 2 <= n
    /\ IsKey(tokens[i]) /\ tokens[i + 1] = ":" /\ IsValue(tokens[i + 2])
    /\ \/ i + 2 = n
       \/ /\ i + 3 < n
          /\ tokens[i + 3] = ","
          /\ IsPairList(tokens, i + 4, n)

IsJsonObject(tokens) ==
    /\ Len(tokens) >= 2
    /\ tokens[1] = "{" /\ tokens[Len(tokens)] = "}"
    /\ Len(tokens) = 2 \/ IsPairList(tokens, 2, Len(tokens) - 1)

\* finalize_tool_call: json.loads(self.accumulated_args), {} for a blank
\* string, {"raw_args": ...} on JSONDecodeError
LoadAccumulatedArgs(accumulated_args) ==
    IF accumulated_args = <<>> THEN DictArgs({})
    ELSE IF IsJsonObject(accumulated_args)
      THEN DictArgs(PairsFrom(accumulated_args, 2))
      ELSE RawArgs(accumulated_args)

\* message_chunk.tool_calls as langchain derives it from one chunk: args ""
\* gives {}, a fragment that opens an object gives the pairs completed so
\* far, any other fragment is no dict and the call is left out
PartialArgs(fragment) ==
    IF fragment = <<>> THEN DictArgs({})
    ELSE IF fragment[1] = "{" THEN DictArgs(PairsFrom(fragment, 2))
    ELSE InvalidArgs

ToolCallChunk(name, args, id) == [name |-> name, args |-> args, id |-> id]

RECURSIVE ToolCallsOf(_)
ToolCallsOf(tool_call_chunks) ==
    IF tool_call_chunks = <<>> THEN <<>>
    ELSE LET chunk == Head(tool_call_chunks)
             args == PartialArgs(chunk.args)
         IN (IF args.kind = "dict"
               THEN <<[name |-> chunk.name, args |-> args, id |-> chunk.id]>>
               ELSE <<>>)
            \o ToolCallsOf(Tail(tool_call_chunks))

\* --- what astream delivers ----------------------------------------------
\* an AIMessageChunk
AIMessageChunk(content, finish_reason, tool_call_chunks) ==
    [kind |-> "AIMessageChunk", content |-> content,
     finish_reason |-> finish_reason, tool_call_chunks |-> tool_call_chunks,
     tool_call_id |-> NoCallId]
\* a ToolMessage
ToolResultMessage(tool_call_id) ==
    [kind |-> "ToolMessage", content |-> "result", finish_reason |-> "",
     tool_call_chunks |-> <<>>, tool_call_id |-> tool_call_id]
\* a dict event, with "__interrupt__" in it or not
DictEvent(interrupt) ==
    [kind |-> IF interrupt THEN "interrupt" ELSE "dict", content |-> "",
     finish_reason |-> "", tool_call_chunks |-> <<>>, tool_call_id |-> NoCallId]

\* event_stream_message as process_astream builds it for an AIMessageChunk
EventStreamMessage(message_chunk) ==
    [content |-> message_chunk.content,
     finish_reason |-> message_chunk.finish_reason,
     tool_calls |-> ToolCallsOf(message_chunk.tool_call_chunks),
     tool_call_chunks |-> message_chunk.tool_call_chunks]

\* --- ToolCallChunksAssembler ---------------------------------------------
\* reset
ResetAssembler ==
    [assembling |-> FALSE,
     current_tool_call |-> [id |-> NoCallId, name |-> "", args |-> DictArgs({}),
                            present |-> FALSE],
     accumulated_args |-> <<>>]

\* a tool call whose name is empty or whose args are None or {}
IsIncomplete(tool_call) == tool_call.name = "" \/ tool_call.args.pairs = {}

\* should_start_assembling
ShouldStartAssembling(esm) ==
    IF esm.tool_call_chunks # <<>> /\ esm.tool_calls = <<>>
      THEN \E i \in DOMAIN esm.tool_call_chunks : esm.tool_call_chunks[i].name # ""
    ELSE IF esm.tool_calls # <<>> /\ esm.tool_call_chunks # <<>>
      THEN \E i \in DOMAIN esm.tool_calls : IsIncomplete(esm.tool_calls[i])
    ELSE FALSE

\* should_finalize_assembling
ShouldFinalizeAssembling(esm) ==
    IF esm.tool_calls # <<>> /\ esm.tool_call_chunks = <<>> THEN TRUE
    ELSE IF esm.tool_calls # <<>>
      THEN \E i \in DOMAIN esm.tool_calls : esm.tool_calls[i].args.pairs # {}
    ELSE FALSE

\* should_stop_assembling
ShouldStopAssembling(esm) ==
    esm.tool_call_chunks = <<>> /\ esm.finish_reason = "tool_calls"

\* accumulate_chunk
RECURSIVE AccumulateChunk(_, _)
AccumulateChunk(asm, tool_call_chunks) ==
    IF tool_call_chunks = <<>> THEN asm
    ELSE AccumulateChunk(
             [asm EXCEPT !.accumulated_args = @ \o Head(tool_call_chunks).args],
             Tail(tool_call_chunks))

\* start_assembling
StartAssembling(esm) ==
    LET from_calls ==
            IF esm.tool_calls # <<>>
              THEN [id |-> esm.tool_calls[1].id, name |-> esm.tool_calls[1].name]
              ELSE [id |-> NoCallId, name |-> ""]
        first_chunk == esm.tool_call_chunks[1]
        id == IF esm.tool_call_chunks # <<>> /\ first_chunk.id # NoCallId
                THEN first_chunk.id ELSE from_calls.id
        name == IF esm.tool_call_chunks # <<>> /\ first_chunk.name # ""
                  THEN first_chunk.name ELSE from_calls.name
    IN [assembling |-> TRUE,
        current_tool_call |-> [id |-> id, name |-> name, args |-> DictArgs({}),
                               present |-> TRUE],
        accumulated_args |-> IF esm.tool_call_chunks # <<>>
                               THEN first_chunk.args ELSE <<>>]

\* update_tool_info_from_final_call
UpdateToolInfoFromFinalCall(current_tool_call, final_tool_calls) ==
    IF final_tool_calls = <<>> THEN current_tool_call
    ELSE [current_tool_call EXCEPT
            !.name = IF @ = "" THEN final_tool_calls[1].name ELSE @,
            !.id = IF @ = NoCallId THEN final_tool_calls[1].id ELSE @]

\* an SSE event: its type, the keys of its payload and, for the tool
\* events, the calls it carries or the call it answers
SseEvent(type, fields, tool_calls, tool_call_id) ==
    [type |-> type, fields |-> fields, tool_calls |-> tool_calls,
     tool_call_id |-> tool_call_id]
PlainEvent(type, fields) == SseEvent(type, fields, <<>>, NoCallId)

MessageFields == {"thread_id", "agent", "id", "role"}

\* finalize_tool_call without the reset of accumulated_args
FinalizeToolCallKeepsArgs(asm, esm) ==
    IF ~asm.current_tool_call.present THEN [assembler |-> asm, emit |-> <<>>]
    ELSE LET call == UpdateToolInfoFromFinalCall(asm.current_tool_call,
                                                 esm.tool_calls)
         IN [assembler |-> [ResetAssembler EXCEPT
                              !.accumulated_args = asm.accumulated_args],
             emit |-> <<SseEvent("tool_calls",
                                 MessageFields \cup {"tool_calls", "finish_reason"},
                                 <<[id |-> call.id, name |-> call.name,
                                    args |-> LoadAccumulatedArgs(asm.accumulated_args)]>>,
                                 NoCallId)>>]

\* finalize_tool_call: the assembler it leaves and the events to send
FinalizeToolCall(asm, esm) ==
    IF ~asm.current_tool_call.present THEN [assembler |-> asm, emit |-> <<>>]
    ELSE LET call == UpdateToolInfoFromFinalCall(asm.current_tool_call,
                                                 esm.tool_calls)
         IN [assembler |-> ResetAssembler,
             emit |-> <<SseEvent("tool_calls",
                                 MessageFields \cup {"tool_calls", "finish_reason"},
                                 <<[id |-> call.id, name |-> call.name,
                                    args |-> LoadAccumulatedArgs(asm.accumulated_args)]>>,
                                 NoCallId)>>]

\* Tool-call ids are character sequences.
CallPrefix == <<"c", "a", "l", "l", "_">>

\* str.startswith
StartsWith(s, prefix) ==
    Len(s) >= Len(prefix) /\ SubSeq(s, 1, Len(prefix)) = prefix

\* str.split(sep): the pieces between the occurrences of sep, found from
\* the left without overlap
RECURSIVE Split(_, _)
Split(s, sep) ==
    LET found == {i \in 1..(Len(s) - Len(sep) + 1) :
                     SubSeq(s, i, i + Len(sep) - 1) = sep}
    IN IF found = {} THEN <<s>>
       ELSE LET i == CHOOSE k \in found : \A j \in found : k <= j
            IN <<SubSeq(s, 1, i - 1)>>
               \o Split(SubSeq(s, i + Len(sep), Len(s)), sep)

\* s * n
RECURSIVE Repeat(_, _)
Repeat(s, n) == IF n <= 0 THEN <<>> ELSE s \o Repeat(s, n - 1)

CleanToolCallIdDropsFirstBlock(raw_tool_call_id) ==
    IF raw_tool_call_id = <<>> THEN raw_tool_call_id
    ELSE IF StartsWith(raw_tool_call_id, CallPrefix)
      THEN LET parts == Split(raw_tool_call_id, CallPrefix)
           IN IF Len(parts) > 2 THEN CallPrefix \o parts[2]
              ELSE raw_tool_call_id
    ELSE IF Len(raw_tool_call_id) >= 64
      THEN LET first_32 == SubSeq(raw_tool_call_id, 1, 32)
           IN IF raw_tool_call_id
                   = Repeat(first_32, Len(raw_tool_call_id) \div 32)
                THEN SubSeq(raw_tool_call_id, 33, Len(raw_tool_call_id))
                ELSE raw_tool_call_id
    ELSE raw_tool_call_id

\* _clean_tool_call_id
CleanToolCallId(raw_tool_call_id) ==
    IF raw_tool_call_id = <<>> THEN raw_tool_call_id
    ELSE IF StartsWith(raw_tool_call_id, CallPrefix)
      THEN LET parts == Split(raw_tool_call_id, CallPrefix)
           IN IF Len(parts) > 2 THEN CallPrefix \o parts[2]
              ELSE raw_tool_call_id
    ELSE IF Len(raw_tool_call_id) >= 64
      THEN LET first_32 == SubSeq(raw_tool_call_id, 1, 32)
           IN IF raw_tool_call_id
                   = Repeat(first_32, Len(raw_tool_call_id) \div 32)
                THEN first_32
                ELSE raw_tool_call_id
    ELSE raw_tool_call_id

\* the payload keys process_astream sends for an event_stream_message
EsmFields(esm) ==
    MessageFields
    \cup (IF esm.content # "" THEN {"content"} ELSE {})
    \cup (IF esm.finish_reason # "" THEN {"finish_reason"} ELSE {})
    \cup (IF esm.tool_calls # <<>> THEN {"tool_calls"} ELSE {})
    \cup (IF esm.tool_call_chunks # <<>> THEN {"tool_call_chunks"} ELSE {})

\* The body of process_astream's loop for one item of astream: the
\* assembler it leaves and the events it yields.
ProcessMessage(asm, message_chunk) ==
    LET esm == EventStreamMessage(message_chunk)
        Keep == [assembler |-> asm, emit |-> <<>>]
    IN
    CASE message_chunk.kind = "interrupt" ->
           [assembler |-> asm,
            emit |-> <<PlainEvent("interrupt",
                          {"thread_id", "id", "role", "content",
                           "finish_reason", "options"})>>]
      [] message_chunk.kind = "dict" -> Keep
      [] message_chunk.kind = "ToolMessage" ->
           [assembler |-> asm,
            emit |-> <<SseEvent("tool_call_result",
                                EsmFields(esm) \cup {"tool_call_id"}, <<>>,
                                CleanToolCallId(message_chunk.tool_call_id))>>]
      [] message_chunk.kind = "AIMessageChunk" ->
           IF esm.tool_calls # <<>>
             THEN IF asm.assembling /\ ShouldFinalizeAssembling(esm)
                    THEN FinalizeToolCall(asm, esm)
                  ELSE IF asm.assembling
                    THEN [assembler |-> AccumulateChunk(asm, esm.tool_call_chunks),
                          emit |-> <<>>]
                  ELSE IF ShouldStartAssembling(esm)
                    THEN [assembler |->
                              AccumulateChunk(StartAssembling(esm),
                                              Tail(esm.tool_call_chunks)),
                          emit |-> <<>>]
                  ELSE IF \E i \in DOMAIN esm.tool_calls :
                             IsIncomplete(esm.tool_calls[i])
                    THEN [assembler |-> StartAssembling(esm), emit |-> <<>>]
                  ELSE [assembler |-> asm,
                        emit |-> <<SseEvent("tool_calls", EsmFields(esm),
                                            esm.tool_calls, NoCallId)>>]
           ELSE IF esm.tool_call_chunks # <<>>
             THEN IF ~asm.assembling /\ ShouldStartAssembling(esm)
                    THEN [assembler |-> StartAssembling(esm), emit |-> <<>>]
                  ELSE IF asm.assembling
                    THEN [assembler |-> AccumulateChunk(asm, esm.tool_call_chunks),
                          emit |-> <<>>]
                  ELSE [assembler |-> asm,
                        emit |-> <<PlainEvent("tool_call_chunks", EsmFields(esm))>>]
           ELSE IF esm.content = "" /\ esm.finish_reason = "" THEN Keep
           ELSE IF asm.assembling /\ ShouldStopAssembling(esm)
             THEN FinalizeToolCall(asm, esm)
           ELSE [assembler |-> asm,
                 emit |-> <<PlainEvent("message_chunk", EsmFields(esm))>>]

\* --- the runtime behind astream -----------------------------------------
\* One agent step as a streaming chat model and its tool node deliver it:
\* for each tool call a first chunk with the name and the id and then the
\* rest of the argument string in fragments, a chunk with finish_reason
\* "tool_calls", the ToolMessage of each call, the closing text.  The model
\* is called with max_tokens (llms/config.py), so the reply may also be cut
\* inside an argument string: the last chunk then has finish_reason
\* "length", no tool runs and the step is over.
CallId(i) == CallPrefix \o (IF i = 1 THEN <<"1">> ELSE <<"2">>)
CallName(i) == IF i = 1 THEN "calc" ELSE "search"
ArgStrings == {<<"{", "a", ":", "1", "}">>,
               <<"{", "a", ":", "1", ",", "b", ":", "2", "}">>}
CallArgs(rt, i) == IF i = 1 THEN rt.args ELSE <<"{", "b", ":", "2", "}">>

\* the runtime after the fragment that leaves rest of call rt.cur unsent
AfterFragment(rt, rest) ==
    IF rest # <<>> THEN [rt EXCEPT !.phase = "frags", !.rest = rest]
    ELSE IF rt.cur < rt.ncalls
      THEN [rt EXCEPT !.phase = "first", !.cur = @ + 1, !.rest = <<>>]
    ELSE [rt EXCEPT !.phase = "finish", !.rest = <<>>]

\* what astream can deliver next, with the runtime it leaves
NextMessages(rt) ==
    (IF rt.phase = "ai" /\ rt.extras < MaxExtras
       THEN {[message |-> m, runtime |-> [rt EXCEPT !.extras = @ + 1]] :
               m \in {AIMessageChunk("text", "", <<>>),
                      AIMessageChunk("", "", <<>>),
                      DictEvent(TRUE), DictEvent(FALSE)}}
       ELSE {})
    \cup
    (IF (rt.phase = "ai" /\ rt.ncalls > 0) \/ rt.phase = "first"
       THEN LET tokens == CallArgs(rt, rt.cur)
            IN {[message |-> AIMessageChunk("", "",
                                <<ToolCallChunk(CallName(rt.cur),
                                                SubSeq(tokens, 1, k),
                                                CallId(rt.cur))>>),
                 runtime |-> AfterFragment(rt, SubSeq(tokens, k + 1, Len(tokens)))] :
                  k \in 0..Len(tokens)}
       ELSE {})
    \cup
    (IF rt.phase = "frags"
       THEN {[message |-> AIMessageChunk("", "",
                                <<ToolCallChunk("", SubSeq(rt.rest, 1, k),
                                                NoCallId)>>),
              runtime |-> AfterFragment(rt, SubSeq(rt.rest, k + 1, Len(rt.rest)))] :
                k \in 1..Len(rt.rest)}
       ELSE {})
    \cup
    (IF rt.phase = "frags"
       THEN {[message |-> AIMessageChunk("", "length", <<>>),
              runtime |-> [rt EXCEPT !.phase = "ended", !.rest = <<>>]]}
       ELSE {})
    \cup
    (IF rt.phase = "finish"
       THEN {[message |-> AIMessageChunk("", "tool_calls", <<>>),
              runtime |-> [rt EXCEPT !.phase = "results", !.cur = 1]]}
       ELSE {})
    \cup
    (IF rt.phase = "results"
       THEN {[message |-> ToolResultMessage(CallId(rt.cur)),
              runtime |-> IF rt.cur < rt.ncalls
                            THEN [rt EXCEPT !.cur = @ + 1]
                            ELSE [rt EXCEPT !.phase = "final"]]}
       ELSE {})
    \cup
    (IF rt.phase = "final" \/ (rt.phase = "ai" /\ rt.ncalls = 0)
       THEN {[message |-> AIMessageChunk("text", "stop", <<>>),
              runtime |-> [rt EXCEPT !.phase = "ended"]]}
       ELSE {})

\* the events execute_graph_stream yields for one chunk {node: node_data}
NodeChunkEvents(has_final_response, has_tool_results) ==
    <<PlainEvent("node_update", {"node_data", "current_step", "messages_count",
                                 "has_final_response"})>>
    \o (IF has_final_response
          THEN <<PlainEvent("message", {"content", "message_type"})>> ELSE <<>>)
    \o (IF has_tool_results
          THEN <<PlainEvent("tool_call", {"tool_results"})>> ELSE <<>>)

\* --- the generators -------------------------------------------------------
\* _chat_stream_generator iterates the manager's execute_graph_stream: the
\* one of graph_manager.py, or process_astream of stream.py handed through.
Pipelines == {"execute_graph_stream", "process_astream"}

InitStream ==
    /\ config_dir = {}
    /\ config_file_cache = <<>>
    /\ config_loaded = FALSE
    /\ graphs = << >>
    /\ compiles = 0
    /\ serving = TRUE
    /\ last_call = [op |-> "init"]
    /\ extract_call = NoExtractCall
    /\ protocol = NoProtocol
    /\ pc = NoRun
    /\ state = NoState
    /\ loop = NoLoop
    /\ route = NoRoute
    /\ stream \in {[NoStream EXCEPT !.pipeline = p, !.registered = r,
                                    !.pos = "init"] :
                      p \in Pipelines, r \in BOOLEAN}
    /\ stream.pipeline = "process_astream" => stream.registered
    /\ events = <<>>
    /\ assembler = ResetAssembler
    /\ runtime \in {[NoRuntime EXCEPT !.phase = "ai", !.ncalls = n, !.args = a] :
                       n \in 0..MaxCalls, a \in ArgStrings}
    /\ collection = {}
    /\ clock = 0
    /\ put_log = <<>>
    /\ answer = NoAnswer
    /\ clean_call = NoCleanCall
    /\ requests = NoRequests
    /\ storage = NoStorage
    /\ conditional_paths = NoPaths
    /\ validate_call = NoValidateCall

\* a yield that puts the event before those already sent
YieldFirst(emit, last, cause) ==
    /\ events' = <<Head(emit)>> \o events
    /\ stream' = [stream EXCEPT !.pos = "yielded", !.pending = Tail(emit),
                                !.last = last, !.cause = cause]

\* `yield event`: the generator is suspended while the consumer writes the
\* event to the client; more events of the same item may be waiting, and
\* the yield may be the last statement the generator runs
Yield(emit, last, cause) ==
    /\ events' = Append(events, Head(emit))
    /\ stream' = [stream EXCEPT !.pos = "yielded", !.pending = Tail(emit),
                                !.last = last, !.cause = cause]

\* the first step of the generators, up to the first await or yield
StartStream ==
    /\ stream.pos = "init"
    /\ IF stream.pipeline = "execute_graph_stream"
         THEN IF ~stream.registered
                THEN Yield(<<PlainEvent("error", {"error", "final_response"})>>,
                           TRUE, "missing")
                ELSE Yield(<<PlainEvent("graph_start", {"graph_id", "user_input"})>>,
                           FALSE, "none")
         ELSE /\ stream' = [stream EXCEPT !.pos = "await_next"]
              /\ UNCHANGED events
    /\ UNCHANGED <<assembler, runtime>>
    /\ UNCHANGED <<varsR, varsX, varsG, varsM, varsC, varsQ, varsB, varsV>>

\* _chat_stream_generator's `except Exception`: an exception raised in the
\* generator itself before the manager's stream runs
GeneratorRaises ==
    /\ stream.pos = "init"
    /\ Yield(<<PlainEvent("error", {"error", "config_id"})>>, TRUE, "exception")
    /\ UNCHANGED <<assembler, runtime>>
    /\ UNCHANGED <<varsR, varsX, varsG, varsM, varsC, varsQ, varsB, varsV>>

\* process_astream: astream delivers an item, the loop body handles it
AstreamYields ==
    /\ stream.pos = "await_next"
    /\ stream.pipeline = "process_astream"
    /\ \E d \in NextMessages(runtime) :
          LET r == ProcessMessage(assembler, d.message)
          IN /\ runtime' = d.runtime
             /\ assembler' = r.assembler
             /\ IF r.emit = <<>>
                  THEN UNCHANGED <<events, stream>>
                  ELSE Yield(r.emit, FALSE, "none")
    /\ UNCHANGED <<varsR, varsX, varsG, varsM, varsC, varsQ, varsB, varsV>>

\* execute_graph_stream: astream delivers a chunk {node: node_data}
AstreamYieldsChunk ==
    /\ stream.pos = "await_next"
    /\ stream.pipeline = "execute_graph_stream"
    /\ runtime.chunks < MaxChunks
    /\ \E has_final_response \in BOOLEAN, has_tool_results \in BOOLEAN :
          Yield(NodeChunkEvents(has_final_response, has_tool_results),
                FALSE, "none")
    /\ runtime' = [runtime EXCEPT !.chunks = @ + 1]
    /\ UNCHANGED assembler
    /\ UNCHANGED <<varsR, varsX, varsG, varsM, varsC, varsQ, varsB, varsV>>

\* the consumer has written the event and asks for the next one
Resume ==
    /\ stream.pos = "yielded"
    /\ IF stream.pending # <<>>
         THEN Yield(stream.pending, stream.last, stream.cause)
         ELSE /\ stream' = IF stream.last
                             THEN [stream EXCEPT !.pos = "done",
                                                 !.outcome = "returned"]
                             ELSE [stream EXCEPT !.pos = "await_next"]
              /\ UNCHANGED events
    /\ UNCHANGED <<assembler, runtime>>
    /\ UNCHANGED <<varsR, varsX, varsG, varsM, varsC, varsQ, varsB, varsV>>

\* astream is exhausted
GraphCompletes ==
    /\ stream.pos = "await_next"
    /\ IF stream.pipeline = "execute_graph_stream"
         THEN Yield(<<PlainEvent("graph_end", {"status", "graph_id"})>>,
                    TRUE, "completed")
         ELSE /\ runtime.phase = "ended"
              /\ stream' = [stream EXCEPT !.pos = "done", !.cause = "completed",
                                          !.outcome = "returned"]
              /\ UNCHANGED events
    /\ UNCHANGED <<assembler, runtime>>
    /\ UNCHANGED <<varsR, varsX, varsG, varsM, varsC, varsQ, varsB, varsV>>

\* astream (the graph, a node) or the loop body raises an Exception
GraphRaises ==
    /\ stream.pos = "await_next"
    /\ IF stream.pipeline = "execute_graph_stream"
         THEN Yield(<<PlainEvent("error", {"error", "final_response", "context"})>>,
                    TRUE, "exception")
         ELSE Yield(<<PlainEvent("error", {"error", "graph_id"})>>,
                    TRUE, "exception")
    /\ UNCHANGED <<assembler, runtime>>
    /\ UNCHANGED <<varsR, varsX, varsG, varsM, varsC, varsQ, varsB, varsV>>

\* The client disconnects and the task driving the stream is cancelled.
\* While it awaits astream, CancelledError is thrown into the generators:
\* process_astream catches it and yields `cancelled`; execute_graph_stream
\* catches Exception only, so it reaches _chat_stream_generator, which
\* sends nothing. While the task writes an event, the generators are
\* suspended at their yield and are closed there.
Cancel ==
    /\ ~stream.cancelled
    /\ \/ /\ stream.pos = "await_next"
          /\ IF stream.pipeline = "process_astream"
               THEN /\ events' = Append(events,
                          PlainEvent("cancelled",
                              {"thread_id", "graph_id", "message",
                               "events_processed"}))
                    /\ stream' = [stream EXCEPT !.pos = "yielded", !.last = TRUE,
                                                !.cause = "cancelled",
                                                !.cancelled = TRUE]
               ELSE /\ stream' = [stream EXCEPT !.pos = "done",
                                                !.cause = "cancelled",
                                                !.cancelled = TRUE,
                                                !.outcome = "returned"]
                    /\ UNCHANGED events
       \/ /\ stream.pos = "yielded"
          /\ stream' = [stream EXCEPT !.pos = "done", !.pending = <<>>,
                                      !.cause = IF @ = "none" THEN "cancelled" ELSE @,
                                      !.cancelled = TRUE, !.outcome = "closed"]
          /\ UNCHANGED events
    /\ UNCHANGED <<assembler, runtime>>
    /\ UNCHANGED <<varsR, varsX, varsG, varsM, varsC, varsQ, varsB, varsV>>

NextS ==
    \/ StartStream
    \/ GeneratorRaises
    \/ AstreamYields
    \/ AstreamYieldsChunk
    \/ Resume
    \/ GraphCompletes
    \/ GraphRaises
    \/ Cancel

\* ========================================================================
\* Part 5. The checkpoint store (memory/mongodb_checkpointer.py)
\* ========================================================================
\* Message contents are character sequences in this part, so that
\* `a in b` on strings is containment of a contiguous run of characters.
\* A thread id is the token sequence of Part 2.

\* put calls of one run, messages of the snapshots enumerated
MaxPuts == 2
MaxMessages == 3

CheckpointIds == {"c1", "c2"}
StoreThreads == {MakeThreadId(u, x, <<"1">>) : u \in Usernames, x \in Uuids}
Metadata == {"loop"}

\* the contents the enumerated snapshots are made of: "", "a", "ab"
MessageContents == {<<>>, <<"a">>, <<"a", "b">>}
StoredMessages ==
    {HumanMessage(c) : c \in MessageContents}
    \cup {AIMessage(c) : c \in MessageContents}
    \cup {ToolMessage(c) : c \in MessageContents}

\* the conversation [H("hi"), A("1"), H("hi there"), A("2"), H("new"), A("3")]
HiThereConversation ==
    <<HumanMessage(<<"h", "i">>), AIMessage(<<"1">>),
      HumanMessage(<<"h", "i", " ", "t", "h", "e", "r", "e">>),
      AIMessage(<<"2">>), HumanMessage(<<"n", "e", "w">>), AIMessage(<<"3">>)>>

\* channel_values["messages"] of the snapshots read back: every list of at
\* most MaxMessages stored messages, the lists with a system message
\* between two stored messages, and the conversation above
MessageLists ==
    UNION {[1..k -> StoredMessages] : k \in 0..MaxMessages}
    \cup {<<before, SystemMessage(<<"a">>), after>> :
             before \in StoredMessages, after \in StoredMessages}
    \cup {HiThereConversation}

\* the snapshots the puts of a run write: a conversation as it grows
PutSnapshots == {<<HumanMessage(<<"a">>)>>,
                 <<HumanMessage(<<"a">>), AIMessage(<<"a", "b">>)>>}

\* a LangGraph checkpoint
Checkpoint(id, messages) ==
    [id |-> id, channel_values |-> [messages |-> messages]]

\* _extract_username_from_thread_id
ExtractUsernameFromThreadId(thread_id) ==
    IF thread_id = <<>> THEN None
    ELSE IF Len(thread_id) < 3 THEN None
    ELSE thread_id[1]

\* the document put builds; pymongo stores both datetimes in milliseconds
Doc(thread_id, checkpoint, parent_checkpoint_id, metadata, now) ==
    [thread_id |-> thread_id,
     checkpoint_id |-> checkpoint.id,
     parent_checkpoint_id |-> parent_checkpoint_id,
     checkpoint_data |-> checkpoint,
     metadata |-> metadata,
     username |-> ExtractUsernameFromThreadId(thread_id),
     created_at |-> now,
     updated_at |-> now]

\* the documents a query on the thread (and the checkpoint id, when one is
\* given) selects
Find(coll, thread_id, checkpoint_id) ==
    {d \in coll : /\ d.thread_id = thread_id
                  /\ checkpoint_id # None => d.checkpoint_id = checkpoint_id}

\* collection.update_one(filter, {"$set": doc}, upsert=True)
UpdateOneUpsert(coll, thread_id, checkpoint_id, doc) ==
    LET matches == Find(coll, thread_id, checkpoint_id)
    IN IF matches = {} THEN coll \cup {doc}
       ELSE (coll \ {CHOOSE d \in matches : TRUE}) \cup {doc}

\* find_one(query, sort=[("created_at", -1)]): a document of the newest
\* created_at; which one of several with the same created_at is not
\* specified
FindOneLatest(docs) ==
    {d \in docs : \A e \in docs : e.created_at <= d.created_at}

\* find(query).sort("created_at", -1): the documents in an order of
\* non-increasing created_at
SortedByCreatedAtDesc(docs) ==
    {f \in [1..Cardinality(docs) -> docs] :
        /\ \A i, j \in DOMAIN f : i # j => f[i] # f[j]
        /\ \A i, j \in DOMAIN f : i < j => f[i].created_at >= f[j].created_at}

\* type(msg).__name__
TypeName(msg) ==
    CASE msg.type = "human" -> "HumanMessage"
      [] msg.type = "ai" -> "AIMessage"
      [] msg.type = "tool" -> "ToolMessage"
      [] OTHER -> "SystemMessage"

IsDuplicateOfLonger(content, seen_human_contents) ==
    \E seen_content \in seen_human_contents : Contains(seen_content, content)

\* any(seen_content in content for seen_content in seen_human_contents)
IsDuplicate(content, seen_human_contents) ==
    \E seen_content \in seen_human_contents : Contains(content, seen_content)

\* a loop that runs the duplicate test on the messages of every role
RECURSIVE FormatMessagesFromAnyRole(_, _, _)
FormatMessagesFromAnyRole(messages, seen_human_contents, formatted) ==
    IF messages = <<>> THEN formatted
    ELSE LET msg == Head(messages)
             message_data == [type |-> TypeName(msg), content |-> msg.content,
                              role |-> msg.type]
         IN IF message_data.content # <<>>
              THEN IF IsDuplicate(message_data.content, seen_human_contents)
                     THEN FormatMessagesFromAnyRole(Tail(messages),
                                                    seen_human_contents, formatted)
                     ELSE FormatMessagesFromAnyRole(
                              Tail(messages),
                              seen_human_contents \cup {message_data.content},
                              Append(formatted, message_data))
              ELSE FormatMessagesFromAnyRole(Tail(messages), seen_human_contents,
                                             Append(formatted, message_data))

\* the loop of _format_messages over the messages still to format
RECURSIVE FormatMessagesFrom(_, _, _)
FormatMessagesFrom(messages, seen_human_contents, formatted) ==
    IF messages = <<>> THEN formatted
    ELSE LET msg == Head(messages)
             message_data == [type |-> TypeName(msg), content |-> msg.content,
                              role |-> msg.type]
         IN IF message_data.role = "human" /\ message_data.content # <<>>
              THEN IF IsDuplicate(message_data.content, seen_human_contents)
                     THEN FormatMessagesFrom(Tail(messages), seen_human_contents,
                                             formatted)
                     ELSE FormatMessagesFrom(
                              Tail(messages),
                              seen_human_contents \cup {message_data.content},
                              Append(formatted, message_data))
              ELSE FormatMessagesFrom(Tail(messages), seen_human_contents,
                                      Append(formatted, message_data))

\* _format_messages
FormatMessages(messages) == FormatMessagesFrom(messages, {}, <<>>)

\* list(reversed(s))
Reversed(s) == [i \in 1..Len(s) |-> s[Len(s) + 1 - i]]

\* a slice that takes the element at end_idx as well
SliceInclusive(s, start_idx, end_idx) ==
    IF start_idx >= Len(s) THEN <<>>
    ELSE SubSeq(s, start_idx + 1, IF end_idx + 1 < Len(s) THEN end_idx + 1 ELSE Len(s))

\* s[start_idx:end_idx] for indexes that are not negative
Slice(s, start_idx, end_idx) ==
    IF start_idx >= Len(s) THEN <<>>
    ELSE SubSeq(s, start_idx + 1, IF end_idx < Len(s) THEN end_idx ELSE Len(s))

\* what get_flat_messages returns when it finds no checkpoint
EmptyPage(thread_id, page, page_size) ==
    [thread_id |-> thread_id, total |-> 0, page |-> page,
     page_size |-> page_size, total_pages |-> 0, messages |-> <<>>]

\* get_flat_messages once latest_checkpoint is found
FlatMessages(latest_checkpoint, thread_id, page, page_size, order) ==
    LET checkpoint_messages ==
            latest_checkpoint.checkpoint_data.channel_values.messages
        formatted == FormatMessages(checkpoint_messages)
        stamped == [i \in DOMAIN formatted |->
                       [type |-> formatted[i].type,
                        content |-> formatted[i].content,
                        role |-> formatted[i].role,
                        timestamp |-> latest_checkpoint.created_at]]
        all_messages == IF order = "desc" THEN Reversed(stamped) ELSE stamped
        total == Len(all_messages)
        start_idx == (page - 1) * page_size
    IN [thread_id |-> thread_id, total |-> total, page |-> page,
        page_size |-> page_size,
        total_pages |-> IF total > 0
                          THEN (total + page_size - 1) \div page_size ELSE 0,
        messages |-> Slice(all_messages, start_idx, start_idx + page_size)]

\* --- the store's API ------------------------------------------------------
Pages == 1..2
PageSizes == {1, 2, 10}
Orders == {"asc", "desc"}
\* limit of list: None (0) or a number
Limits == {0, 1}

CheckpointerPutReraises(connected, raises, thread_id, checkpoint, metadata, parent, tick) ==
    /\ Len(put_log) < MaxPuts
    /\ LET now == clock + tick
           stored == connected /\ thread_id # NoId /\ ~raises
           doc == Doc(thread_id, checkpoint, parent, metadata, now)
       IN /\ clock' = now
          /\ collection' = IF stored
                             THEN UpdateOneUpsert(collection, thread_id,
                                                  checkpoint.id, doc)
                             ELSE collection
          /\ put_log' = Append(put_log, [thread_id |-> thread_id,
                                         checkpoint_id |-> checkpoint.id,
                                         stored |-> stored])
          /\ answer' = [op |-> "put", stored |-> stored,
                        connected |-> connected, raises |-> raises,
                        raised |-> raises,
                        thread_id |-> thread_id, checkpoint |-> checkpoint,
                        metadata |-> metadata, parent |-> parent,
                        checkpoint_id |-> IF stored THEN checkpoint.id
                                          ELSE parent]
    /\ UNCHANGED <<varsR, varsX, varsG, varsS, varsC, varsQ, varsB, varsV>>

\* put: one upsert keyed by (thread_id, checkpoint_id). `connected` is what
\* _ensure_connected returns, `raises` whether the store call inside the try
\* block raises, tick whether the clock has moved on to the next millisecond
\* since the last call.  The except handler logs and returns the config it
\* was given.
CheckpointerPut(connected, raises, thread_id, checkpoint, metadata, parent, tick) ==
    /\ Len(put_log) < MaxPuts
    /\ LET now == clock + tick
           stored == connected /\ thread_id # NoId /\ ~raises
           doc == Doc(thread_id, checkpoint, parent, metadata, now)
       IN /\ clock' = now
          /\ collection' = IF stored
                             THEN UpdateOneUpsert(collection, thread_id,
                                                  checkpoint.id, doc)
                             ELSE collection
          /\ put_log' = Append(put_log, [thread_id |-> thread_id,
                                         checkpoint_id |-> checkpoint.id,
                                         stored |-> stored])
          /\ answer' = [op |-> "put", stored |-> stored,
                        connected |-> connected, raises |-> raises,
                        raised |-> FALSE,
                        thread_id |-> thread_id, checkpoint |-> checkpoint,
                        metadata |-> metadata, parent |-> parent,
                        checkpoint_id |-> IF stored THEN checkpoint.id
                                          ELSE parent]
    /\ UNCHANGED <<varsR, varsX, varsG, varsS, varsC, varsQ, varsB, varsV>>

\* the CheckpointTuple list and get_tuple build from a document
CheckpointTuple(doc) ==
    [checkpoint |-> doc.checkpoint_data, metadata |-> doc.metadata,
     parent_checkpoint_id |-> doc.parent_checkpoint_id]

\* list, run to the end of the generator
CheckpointerList(connected, thread_id, limit, before) ==
    /\ LET before_docs == {d \in collection : d.checkpoint_id = before}
           \* created_at of the document find_one({"checkpoint_id": ...})
           \* returns; -1 when the query gets no created_at condition
           cutoffs == IF before # None /\ before_docs # {}
                        THEN {d.created_at : d \in before_docs} ELSE {-1}
       IN \E cutoff \in cutoffs :
          LET matched == {d \in Find(collection, thread_id, None) :
                             cutoff # -1 => d.created_at < cutoff}
          IN \E cursor \in SortedByCreatedAtDesc(matched) :
                answer' = [op |-> "list", connected |-> connected,
                           thread_id |-> thread_id, limit |-> limit,
                           before |-> before,
                           yielded |->
                              IF ~connected \/ thread_id = NoId THEN <<>>
                              ELSE LET docs == IF limit # 0
                                                 THEN Slice(cursor, 0, limit)
                                                 ELSE cursor
                                   IN [i \in DOMAIN docs |->
                                          CheckpointTuple(docs[i])]]
    /\ UNCHANGED <<collection, clock, put_log>>
    /\ UNCHANGED <<varsR, varsX, varsG, varsS, varsC, varsQ, varsB, varsV>>

\* get_tuple
CheckpointerGetTuple(connected, thread_id, checkpoint_id) ==
    /\ LET docs == Find(collection, thread_id, checkpoint_id)
       IN IF ~connected \/ thread_id = NoId \/ docs = {}
            THEN answer' = [op |-> "get_tuple", connected |-> connected,
                            thread_id |-> thread_id,
                            checkpoint_id |-> checkpoint_id,
                            found |-> FALSE]
            ELSE \E doc \in FindOneLatest(docs) :
                    answer' = [op |-> "get_tuple", connected |-> connected,
                               thread_id |-> thread_id,
                               checkpoint_id |-> checkpoint_id,
                               found |-> TRUE,
                               tuple |-> CheckpointTuple(doc)]
    /\ UNCHANGED <<collection, clock, put_log>>
    /\ UNCHANGED <<varsR, varsX, varsG, varsS, varsC, varsQ, varsB, varsV>>

\* get_flat_messages; the except handler logs and returns the empty page
CheckpointerGetFlatMessages(connected, raises, thread_id, page, page_size, order) ==
    /\ LET docs == Find(collection, thread_id, None)
       IN IF ~connected \/ raises \/ docs = {}
            THEN answer' = [op |-> "flat", connected |-> connected,
                            raises |-> raises, raised |-> FALSE,
                            order |-> order,
                            result |-> EmptyPage(thread_id, page, page_size)]
            ELSE \E latest_checkpoint \in FindOneLatest(docs) :
                    answer' = [op |-> "flat", connected |-> connected,
                               raises |-> raises, raised |-> FALSE,
                               order |-> order,
                               result |-> FlatMessages(latest_checkpoint,
                                                       thread_id, page,
                                                       page_size, order)]
    /\ UNCHANGED <<collection, clock, put_log>>
    /\ UNCHANGED <<varsR, varsX, varsG, varsS, varsC, varsQ, varsB, varsV>>

\* what get_history_messages returns from its except handler
EmptyHistoryPage(thread_id, page, page_size) ==
    EmptyPage(thread_id, page, page_size) @@ [error |-> "str(e)"]

\* get_history_messages: the thread's checkpoints, one page of them
CheckpointerGetHistoryMessages(connected, raises, thread_id, page, page_size, order) ==
    /\ LET docs == Find(collection, thread_id, None)
           total == Cardinality(docs)
           skip == (page - 1) * page_size
       IN IF ~connected
            THEN answer' = [op |-> "history", connected |-> connected,
                            raises |-> raises, raised |-> FALSE,
                            result |-> EmptyPage(thread_id, page, page_size)]
          ELSE IF raises
            THEN answer' = [op |-> "history", connected |-> connected,
                            raises |-> raises, raised |-> FALSE,
                            result |-> EmptyHistoryPage(thread_id, page,
                                                        page_size)]
          ELSE \E cursor \in SortedByCreatedAtDesc(docs) :
                 LET sorted == IF order = "desc" THEN cursor
                               ELSE Reversed(cursor)
                     found == Slice(sorted, skip, skip + page_size)
                 IN answer' =
                      [op |-> "history", connected |-> connected,
                       raises |-> raises, raised |-> FALSE,
                       result |->
                         [thread_id |-> thread_id, total |-> total,
                          page |-> page, page_size |-> page_size,
                          total_pages |->
                             IF total > 0
                               THEN (total + page_size - 1) \div page_size
                               ELSE 0,
                          messages |->
                             [i \in DOMAIN found |->
                                [checkpoint_id |-> found[i].checkpoint_id,
                                 messages |-> FormatMessages(
                                    found[i].checkpoint_data
                                            .channel_values.messages),
                                 metadata |-> found[i].metadata,
                                 created_at |-> found[i].created_at,
                                 updated_at |-> found[i].updated_at]]]]
    /\ UNCHANGED <<collection, clock, put_log>>
    /\ UNCHANGED <<varsR, varsX, varsG, varsS, varsC, varsQ, varsB, varsV>>

\* the preview get_thread_list takes from the latest checkpoint: the first
\* human message that has content, else the first message that has content
FirstMessage(messages) ==
    LET humans == {i \in DOMAIN messages :
                      messages[i].content # <<>> /\ messages[i].type = "human"}
        any == {i \in DOMAIN messages : messages[i].content # <<>>}
        first(set) == CHOOSE i \in set : \A j \in set : i <= j
    IN IF humans # {} THEN Slice(messages[first(humans)].content, 0, 100)
       ELSE IF any # {} THEN Slice(messages[first(any)].content, 0, 100)
       ELSE <<"no messages yet">>

\* one entry of get_thread_list, from the $group of the thread's documents
ThreadEntry(thread_id, docs, latest_checkpoint) ==
    LET parts == thread_id
        extracted == ExtractUsernameFromThreadId(thread_id)
        first_doc == CHOOSE d \in docs : TRUE
    IN [thread_id |-> thread_id,
        username |-> IF first_doc.username # None THEN first_doc.username
                     ELSE IF extracted # None THEN extracted ELSE "unknown",
        first_message |->
            FirstMessage(latest_checkpoint.channel_values.messages),
        last_updated |->
            (CHOOSE d \in docs :
                \A e \in docs : e.updated_at <= d.updated_at).updated_at,
        message_count |-> Cardinality(docs),
        config_id |-> IF Len(parts) >= 3 THEN <<parts[Len(parts)]>>
                      ELSE <<"unknown">>]

\* what get_thread_list returns when the store fails
EmptyThreadPage(username, page, page_size) ==
    [username |-> username, total |-> 0, page |-> page,
     page_size |-> page_size, total_pages |-> 0, threads |-> <<>>]

\* get_thread_list: the aggregation groups the (user's) documents by thread,
\* sorts the groups by last_updated and the page is cut out of them; the
\* order of groups of one last_updated, and the $last of documents of one
\* created_at, are the store's choice
CheckpointerGetThreadList(connected, raises, username, page, page_size, order) ==
    /\ IF ~connected \/ raises
         THEN answer' = [op |-> "threads", connected |-> connected,
                         raises |-> raises, raised |-> FALSE,
                         result |-> EmptyThreadPage(username, page, page_size)]
         ELSE LET matched == IF username # None
                               THEN {d \in collection : d.username = username}
                               ELSE collection
                  ids == {d.thread_id : d \in matched}
                  docs(t) == {d \in matched : d.thread_id = t}
                  total == Cardinality(ids)
                  start_idx == (page - 1) * page_size
              IN \E latest \in [ids -> matched],
                    all_threads \in [1..total -> ids] :
                    /\ \A t \in ids : latest[t] \in FindOneLatest(docs(t))
                    /\ \A i, j \in 1..total :
                          i # j => all_threads[i] # all_threads[j]
                    /\ LET entry(t) ==
                               ThreadEntry(t, docs(t),
                                           latest[t].checkpoint_data)
                       IN /\ \A i, j \in 1..total :
                               i < j =>
                                 IF order = "desc"
                                   THEN entry(all_threads[i]).last_updated
                                        >= entry(all_threads[j]).last_updated
                                   ELSE entry(all_threads[i]).last_updated
                                        <= entry(all_threads[j]).last_updated
                          /\ answer' =
                               [op |-> "threads", connected |-> connected,
                                raises |-> raises, raised |-> FALSE,
                                result |->
                                  [username |-> username, total |-> total,
                                   page |-> page, page_size |-> page_size,
                                   total_pages |->
                                      IF total > 0
                                        THEN (total + page_size - 1)
                                                \div page_size
                                        ELSE 0,
                                   threads |->
                                      LET cut == Slice(all_threads, start_idx,
                                                       start_idx + page_size)
                                      IN [i \in DOMAIN cut |->
                                             entry(cut[i])]]]
    /\ UNCHANGED <<collection, clock, put_log>>
    /\ UNCHANGED <<varsR, varsX, varsG, varsS, varsC, varsQ, varsB, varsV>>

\* The store of a server that has just connected: empty.
InitStore ==
    /\ config_dir = {}
    /\ config_file_cache = <<>>
    /\ config_loaded = FALSE
    /\ graphs = << >>
    /\ compiles = 0
    /\ serving = TRUE
    /\ last_call = [op |-> "init"]
    /\ extract_call = NoExtractCall
    /\ protocol = NoProtocol
    /\ pc = NoRun
    /\ state = NoState
    /\ loop = NoLoop
    /\ route = NoRoute
    /\ stream = NoStream
    /\ events = <<>>
    /\ assembler = NoAssembler
    /\ runtime = NoRuntime
    /\ collection = {}
    /\ clock = 0
    /\ put_log = <<>>
    /\ answer = NoAnswer
    /\ clean_call = NoCleanCall
    /\ requests = NoRequests
    /\ storage = NoStorage
    /\ conditional_paths = NoPaths
    /\ validate_call = NoValidateCall

NextM ==
    \/ \E connected \in BOOLEAN, thread_id \in StoreThreads \cup {NoId},
          id \in CheckpointIds, messages \in PutSnapshots,
          metadata \in Metadata, parent \in {None, "c1"}, tick \in 0..1 :
          CheckpointerPut(connected, FALSE, thread_id,
                          Checkpoint(id, messages), metadata, parent, tick)
    \/ \E connected \in BOOLEAN, thread_id \in StoreThreads \cup {NoId},
          limit \in Limits, before \in {None} \cup CheckpointIds :
          CheckpointerList(connected, thread_id, limit, before)
    \/ \E connected \in BOOLEAN, thread_id \in StoreThreads \cup {NoId},
          checkpoint_id \in {None} \cup CheckpointIds :
          CheckpointerGetTuple(connected, thread_id, checkpoint_id)

\* what the store does during a call: it answers, it cannot be connected
\* to, or the call on the collection raises
StoreCalls == {<<TRUE, FALSE>>, <<FALSE, FALSE>>, <<TRUE, TRUE>>}

\* The store's API under store failures.
NextP ==
    \/ \E store \in StoreCalls, thread_id \in StoreThreads,
          id \in CheckpointIds, messages \in PutSnapshots, tick \in 0..1 :
          CheckpointerPut(store[1], store[2], thread_id,
                          Checkpoint(id, messages), "loop", None, tick)
    \/ \E store \in StoreCalls, thread_id \in StoreThreads, page \in Pages,
          page_size \in {1}, order \in Orders :
          CheckpointerGetFlatMessages(store[1], store[2], thread_id, page,
                                      page_size, order)
    \/ \E store \in StoreCalls, thread_id \in StoreThreads, page \in Pages,
          page_size \in {1}, order \in Orders :
          CheckpointerGetHistoryMessages(store[1], store[2], thread_id, page,
                                         page_size, order)
    \/ \E store \in StoreCalls, username \in {None, "u"}, page \in Pages,
          page_size \in {1, 10}, order \in Orders :
          CheckpointerGetThreadList(store[1], store[2], username, page,
                                    page_size, order)

\* A thread whose latest snapshot holds one of the message lists: the store
\* after the put of that snapshot.
FlatThread == MakeThreadId(<<"u">>, <<"x">>, <<"1">>)
InitFlat ==
    /\ config_dir = {}
    /\ config_file_cache = <<>>
    /\ config_loaded = FALSE
    /\ graphs = << >>
    /\ compiles = 0
    /\ serving = TRUE
    /\ last_call = [op |-> "init"]
    /\ extract_call = NoExtractCall
    /\ protocol = NoProtocol
    /\ pc = NoRun
    /\ state = NoState
    /\ loop = NoLoop
    /\ route = NoRoute
    /\ stream = NoStream
    /\ events = <<>>
    /\ assembler = NoAssembler
    /\ runtime = NoRuntime
    /\ collection \in {{Doc(FlatThread, Checkpoint("c1", messages), None,
                            "loop", 1)} : messages \in MessageLists}
    /\ clock = 1
    /\ put_log = <<[thread_id |-> FlatThread, checkpoint_id |-> "c1",
                    stored |-> TRUE]>>
    /\ answer = NoAnswer
    /\ clean_call = NoCleanCall
    /\ requests = NoRequests
    /\ storage = NoStorage
    /\ conditional_paths = NoPaths
    /\ validate_call = NoValidateCall

NextF ==
    \E connected \in BOOLEAN, page \in Pages, page_size \in PageSizes,
       order \in Orders :
       CheckpointerGetFlatMessages(connected, FALSE, FlatThread, page,
                                   page_size, order)

\* ========================================================================
\* Part 6. Tool-call id normalisation (core/graph/stream.py)
\* ========================================================================
\* blocks an accumulated id is made of
MaxIdBlocks == 4

\* two 32-character hex ids
HexA == [i \in 1..32 |-> "a"]
HexB == [i \in 1..32 |-> IF i <= 16 THEN "a" ELSE "b"]

\* the pieces ids are put together from: the OpenAI prefix, a prefix cut
\* short, one character, the hex ids
IdBlocks == {CallPrefix, <<"c", "a", "l", "l">>, <<"a">>, HexA, HexB}

RECURSIVE IdsOfBlocks(_)
IdsOfBlocks(n) ==
    IF n = 0 THEN {<<>>}
    ELSE IdsOfBlocks(n - 1)
         \cup {id \o b : id \in IdsOfBlocks(n - 1), b \in IdBlocks}

\* the ids the cleaner is given: what a provider sends, repeated or not
RawIds == IdsOfBlocks(MaxIdBlocks)

InitClean ==
    /\ config_dir = {}
    /\ config_file_cache = <<>>
    /\ config_loaded = FALSE
    /\ graphs = << >>
    /\ compiles = 0
    /\ serving = TRUE
    /\ last_call = [op |-> "init"]
    /\ extract_call = NoExtractCall
    /\ protocol = NoProtocol
    /\ pc = NoRun
    /\ state = NoState
    /\ loop = NoLoop
    /\ route = NoRoute
    /\ stream = NoStream
    /\ events = <<>>
    /\ assembler = NoAssembler
    /\ runtime = NoRuntime
    /\ collection = {}
    /\ clock = 0
    /\ put_log = <<>>
    /\ answer = NoAnswer
    /\ clean_call \in {[NoCleanCall EXCEPT !.raw = raw] : raw \in RawIds}
    /\ requests = NoRequests
    /\ storage = NoStorage
    /\ conditional_paths = NoPaths
    /\ validate_call = NoValidateCall

\* _clean_tool_call_id called on the raw id, and then on its own result
CleanCall ==
    /\ clean_call.calls < 2
    /\ clean_call' =
          IF clean_call.calls = 0
            THEN [clean_call EXCEPT !.calls = 1,
                                    !.once = CleanToolCallId(clean_call.raw)]
            ELSE [clean_call EXCEPT !.calls = 2,
                                    !.twice = CleanToolCallId(clean_call.once)]
    /\ UNCHANGED <<varsR, varsX, varsG, varsS, varsM, varsQ, varsB, varsV>>

NextC == CleanCall

\* ========================================================================
\* Part 7. Concurrent chat-stream requests (server/app.py, stream.py)
\* ========================================================================
\* requests in flight at once
MaxRequests == 2
\* vertices a graph runs for one request
MaxSteps == 2

Requests == 1..MaxRequests

\* the config the requests name: the file with provider "memory", whose
\* graph is compiled with a checkpointer
ChatConfigId == <<"agent">>

\* thread_id of a request: a conversation a client continues, or the
\* default
DefaultThreadId == <<"__default__">>
ChatThreadIds == {<<"u", "x", "agent">>, <<"v", "y", "agent">>,
                  DefaultThreadId}
\* str(uuid4()): a value no other call returns
Uuid4(r) == <<"uuid4", CASE r = 1 -> "1" [] r = 2 -> "2" [] OTHER -> "3">>

\* The server once the config has been loaded by a first request.
InitRequests ==
    /\ config_dir = {2}
    /\ config_file_cache = ScanConfigDir({2})
    /\ config_loaded = TRUE
    /\ graphs = RegisterGraphFromFile(<< >>, 0, 2, ChatConfigId).graphs
    /\ compiles = 1
    /\ serving = TRUE
    /\ last_call = [op |-> "ensure", id |-> ChatConfigId, ok |-> TRUE,
                    compiled |-> TRUE]
    /\ extract_call = NoExtractCall
    /\ protocol = NoProtocol
    /\ pc = NoRun
    /\ state = NoState
    /\ loop = NoLoop
    /\ route = NoRoute
    /\ stream = NoStream
    /\ events = <<>>
    /\ assembler = NoAssembler
    /\ runtime = NoRuntime
    /\ collection = {}
    /\ clock = 0
    /\ put_log = <<>>
    /\ answer = NoAnswer
    /\ clean_call = NoCleanCall
    /\ requests = NoRequests
    /\ storage = NoStorage
    /\ conditional_paths = NoPaths
    /\ validate_call = NoValidateCall

\* chat_stream: the graph is loaded, the thread id is the request's or a
\* fresh uuid, and the streaming response is started.  Nothing looks for
\* a request that is already running on the thread.
ChatStream(r, thread_id) ==
    /\ r \notin DOMAIN requests
    /\ ChatConfigId \in DOMAIN graphs
    /\ requests' = Put(requests, r,
                       [pos |-> "running",
                        thread_id |-> IF thread_id = DefaultThreadId
                                        THEN Uuid4(r) ELSE thread_id,
                        initial_state |-> [steps |-> 0]])
    /\ UNCHANGED storage
    /\ UNCHANGED <<varsR, varsX, varsG, varsS, varsM, varsC, varsB, varsV>>

\* process_astream, one vertex of compiled_graph.astream(initial_state,
\* config={"configurable": {"thread_id": self.thread_id}}): the vertex
\* updates the state of this run and the checkpointer saves it under the
\* thread id.  It runs from one suspension point to the next.
AstreamStep(r) ==
    /\ r \in DOMAIN requests
    /\ requests[r].pos = "running"
    /\ requests[r].initial_state.steps < MaxSteps
    /\ LET thread_id == requests[r].thread_id
           steps == requests[r].initial_state.steps + 1
       IN /\ requests' = [requests EXCEPT ![r].initial_state.steps = steps]
          /\ storage' = Put(storage, thread_id,
                            Append(Get(storage, thread_id, <<>>),
                                   [request |-> r, steps |-> steps]))
    /\ UNCHANGED <<varsR, varsX, varsG, varsS, varsM, varsC, varsB, varsV>>

\* the stream of the request ends
AstreamEnds(r) ==
    /\ r \in DOMAIN requests
    /\ requests[r].pos = "running"
    /\ requests' = [requests EXCEPT ![r].pos = "done"]
    /\ UNCHANGED storage
    /\ UNCHANGED <<varsR, varsX, varsG, varsS, varsM, varsC, varsB, varsV>>

NextQ ==
    \/ \E r \in Requests, thread_id \in ChatThreadIds : ChatStream(r, thread_id)
    \/ \E r \in Requests : AstreamStep(r)
    \/ \E r \in Requests : AstreamEnds(r)

\* ========================================================================
\* Part 8. The builder shared by all compilations (builder.py,
\*         graph_manager.py)
\* ========================================================================
\* the protocols registered with the one GraphManager, and their ids
BuilderProtocols == [topology : Topologies, end_name : {<<"finish">>}]
BuilderGraphIds == {<<"1">>, <<"agent">>}
\* condition_results a condition node can leave in node_outputs
ConditionResults == [{"is_a", "is_b"} -> BOOLEAN]

\* self._conditional_paths once build_from_protocol(p) has returned: reset
\* at the start of the build, then filled by _add_conditional_edge
BuiltConditionalPaths(p) ==
    LET edges == WorkflowEdges(p)
        sources == {edges[i].from_node :
                      i \in {j \in DOMAIN edges :
                               edges[j].condition # "" /\ ~WiredToEND(edges[j])}}
    IN [source \in sources |-> ConditionalPaths(edges, source, Len(edges))]

\* A GraphManager that has registered nothing.
InitBuilder ==
    /\ config_dir = {}
    /\ config_file_cache = <<>>
    /\ config_loaded = FALSE
    /\ graphs = << >>
    /\ compiles = 0
    /\ serving = TRUE
    /\ last_call = [op |-> "init"]
    /\ extract_call = NoExtractCall
    /\ protocol = NoProtocol
    /\ pc = NoRun
    /\ state = NoState
    /\ loop = NoLoop
    /\ route = NoRoute
    /\ stream = NoStream
    /\ events = <<>>
    /\ assembler = NoAssembler
    /\ runtime = NoRuntime
    /\ collection = {}
    /\ clock = 0
    /\ put_log = <<>>
    /\ answer = NoAnswer
    /\ clean_call = NoCleanCall
    /\ requests = NoRequests
    /\ storage = NoStorage
    /\ conditional_paths = NoPaths
    /\ validate_call = NoValidateCall

\* GraphManager.register_graph_from_content: self.builder builds the graph
\* and the registry takes it under graph_id.  The compiled graph keeps the
\* vertices, the branches and their path maps of the protocol.
RegisterGraph(graph_id, p) ==
    /\ compiles < MaxCompiles
    /\ compiles' = compiles + 1
    /\ conditional_paths' = BuiltConditionalPaths(p)
    /\ graphs' = Put(graphs, graph_id, [build |-> compiles + 1, protocol |-> p])
    /\ UNCHANGED <<config_dir, config_file_cache, config_loaded, serving,
                   last_call>>
    /\ UNCHANGED <<varsX, varsG, varsS, varsM, varsC, varsQ, varsV>>

\* A run of the registered graph graph_id reaches the branch of the
\* condition node n: LangGraph calls the master_condition_func registered
\* for n, which reads self._conditional_paths[source_node] of the builder
\* as it is now (a missing key raises KeyError, caught: END).
InvokeMasterConditionFunc(graph_id, n, condition_results) ==
    /\ graph_id \in DOMAIN graphs
    /\ LET p == graphs[graph_id].protocol
           edges == WorkflowEdges(p)
           branches == Branches(edges, n, Len(edges))
       IN /\ branches # <<>>
          /\ branches[1].kind = "master"
          /\ LET s == ConditionNodeState(InitialState, n, condition_results)
                 r == MasterConditionFunc(s, n, Get(conditional_paths, n, <<>>))
                 known == r.result \in branches[1].path_map
             IN route' = [from_node |-> n, goto_node |-> NoName,
                          target |-> IF known THEN r.result ELSE NoName,
                          raised |-> ~known, graph_id |-> graph_id,
                          condition_results |-> condition_results]
    /\ UNCHANGED <<protocol, pc, state, loop>>
    /\ UNCHANGED <<varsR, varsX, varsS, varsM, varsC, varsQ, varsB, varsV>>

NextB ==
    \/ \E graph_id \in BuilderGraphIds, p \in BuilderProtocols :
          RegisterGraph(graph_id, p)
    \/ \E graph_id \in BuilderGraphIds, n \in {<<"check">>, <<"agent", "a">>},
          condition_results \in ConditionResults :
          InvokeMasterConditionFunc(graph_id, n, condition_results)

\* ========================================================================
\* Part 9. The validator as a function of the parsed protocol
\*         (core/graph/protocol_parser.py)
\* ========================================================================

\* WorkflowNode with its agent_ref
AgentNode(name, agent_ref) ==
    [name |-> name, type |-> "agent", agent_ref |-> agent_ref]

\* the agents block of the protocols validated
ParsedAgents == {<<"helper">>}

\* workflow.nodes: starts start nodes, one agent node, ends end nodes
ParsedNodes(starts, agent_ref, ends) ==
    (IF starts >= 1 THEN <<WorkflowNode(<<"start">>, "start")>> ELSE <<>>)
    \o (IF starts >= 2 THEN <<WorkflowNode(<<"start", "b">>, "start")>> ELSE <<>>)
    \o <<AgentNode(<<"agent", "a">>, agent_ref)>>
    \o (IF ends >= 1 THEN <<WorkflowNode(<<"finish">>, "end")>> ELSE <<>>)

\* workflow.edges: one edge between consecutive nodes, and for the kinds
\* "ghost_source" and "ghost_target" one edge more with an endpoint that
\* names no node
ParsedEdges(nodes, kind) ==
    [i \in 1..(Len(nodes) - 1) |->
        WorkflowEdge(nodes[i].name, nodes[i + 1].name, "")]
    \o (CASE kind = "ghost_source" ->
                <<WorkflowEdge(<<"ghost">>, nodes[1].name, "")>>
          [] kind = "ghost_target" ->
                <<WorkflowEdge(nodes[1].name, <<"ghost">>, "")>>
          [] OTHER -> <<>>)

\* the parsed protocols handed to the validator
ParsedProtocols ==
    {[name |-> name, version |-> version, schema_version |-> schema_version,
      nodes |-> ParsedNodes(starts, agent_ref, ends),
      edges |-> ParsedEdges(ParsedNodes(starts, agent_ref, ends), kind),
      agents |-> ParsedAgents] :
        name \in {"", "flow"}, version \in {"", "1.0.0"},
        schema_version \in {"1.0.0", "2.0.0"},
        starts \in {0, 1, 2}, ends \in {0, 1},
        agent_ref \in {NoName, <<"helper">>, <<"ghost">>},
        kind \in {"declared", "ghost_source", "ghost_target"}}

InitValidate ==
    /\ config_dir = {}
    /\ config_file_cache = <<>>
    /\ config_loaded = FALSE
    /\ graphs = << >>
    /\ compiles = 0
    /\ serving = TRUE
    /\ last_call = [op |-> "init"]
    /\ extract_call = NoExtractCall
    /\ protocol = NoProtocol
    /\ pc = NoRun
    /\ state = NoState
    /\ loop = NoLoop
    /\ route = NoRoute
    /\ stream = NoStream
    /\ events = <<>>
    /\ assembler = NoAssembler
    /\ runtime = NoRuntime
    /\ collection = {}
    /\ clock = 0
    /\ put_log = <<>>
    /\ answer = NoAnswer
    /\ clean_call = NoCleanCall
    /\ requests = NoRequests
    /\ storage = NoStorage
    /\ conditional_paths = NoPaths
    /\ validate_call \in {[called |-> FALSE, parsed |-> p] : p \in ParsedProtocols}

\* parser.validate_protocol(parsed)
ValidateCall ==
    /\ ~validate_call.called
    /\ validate_call' =
          [called |-> TRUE, parsed |-> validate_call.parsed,
           errors |-> ValidateProtocol(validate_call.parsed.name,
                                       validate_call.parsed.version,
                                       validate_call.parsed.nodes,
                                       validate_call.parsed.edges,
                                       validate_call.parsed.agents)]
    /\ UNCHANGED <<varsR, varsX, varsG, varsS, varsM, varsC, varsQ, varsB>>

NextV == ValidateCall

\* ========================================================================
\* Part 10. The thread list of a server with known config ids
\*          (memory/mongodb_checkpointer.py, server/app.py)
\* ========================================================================
\* thread ids f"{username}_{uuid}_{config_id}" of the config ids "1" and
\* "ops_agent"
ListThreads == {MakeThreadId(<<"u">>, <<"x">>, k) : k \in {<<"1">>, <<"ops", "agent">>}}

\* The store is empty; the config directory holds the files of the ids "1"
\* and "ops_agent", with or without the file of the id "agent".
InitThreads ==
    /\ config_dir \in {{1, 3}, {1, 2, 3}}
    /\ config_file_cache = <<>>
    /\ config_loaded = FALSE
    /\ graphs = << >>
    /\ compiles = 0
    /\ serving = TRUE
    /\ last_call = [op |-> "init"]
    /\ extract_call = NoExtractCall
    /\ protocol = NoProtocol
    /\ pc = NoRun
    /\ state = NoState
    /\ loop = NoLoop
    /\ route = NoRoute
    /\ stream = NoStream
    /\ events = <<>>
    /\ assembler = NoAssembler
    /\ runtime = NoRuntime
    /\ collection = {}
    /\ clock = 0
    /\ put_log = <<>>
    /\ answer = NoAnswer
    /\ clean_call = NoCleanCall
    /\ requests = NoRequests
    /\ storage = NoStorage
    /\ conditional_paths = NoPaths
    /\ validate_call = NoValidateCall

NextT ==
    \/ \E connected \in BOOLEAN, thread_id \in ListThreads,
          id \in CheckpointIds, messages \in PutSnapshots, tick \in 0..1 :
          CheckpointerPut(connected, FALSE, thread_id,
                          Checkpoint(id, messages), "loop", None, tick)
    \/ \E store \in StoreCalls, username \in {None, "u"}, page \in Pages,
          page_size \in {1, 10}, order \in Orders :
          CheckpointerGetThreadList(store[1], store[2], username, page,
                                    page_size, order)

\* ========================================================================
\* Specifications
\* ========================================================================
SpecRegistry == InitRegistry /\ [][NextR]_vars

SpecExtract == InitRegistry /\ [][NextX]_vars

SpecGraph == InitGraph /\ [][NextG]_vars

SpecStream == InitStream /\ [][NextS]_vars

SpecStore == InitStore /\ [][NextM]_vars

SpecFlat == InitFlat /\ [][NextF]_vars

SpecClean == InitClean /\ [][NextC]_vars

SpecPersist == InitStore /\ [][NextP]_vars

SpecRequests == InitRequests /\ [][NextQ]_vars

SpecBuilder == InitBuilder /\ [][NextB]_vars

SpecValidate == InitValidate /\ [][NextV]_vars

SpecThreads == InitThreads /\ [][NextT]_vars

\* ========================================================================
\* Properties
\* ========================================================================

\* C9: ensure_loaded is idempotent and a graph is compiled once per protocol:
\* while the server runs, a registered id stays registered with the very
\* compiled graph of its first load, whatever request is handled next, and an
\* _ensure_graph_loaded call for a registered id succeeds without compiling.
C9_CompiledOncePerProtocol ==
    [][serving' =>
         \A id \in DOMAIN graphs :
            /\ id \in DOMAIN graphs'
            /\ graphs'[id] = graphs[id]
            /\ (last_call' # last_call /\ last_call'.op = "ensure"
                  /\ last_call'.id = id)
                 => (last_call'.ok /\ ~last_call'.compiled)]_vars

\* C10: extract_config_id_from_thread_id inverts thread-id construction:
\* for a known id k the call on u_x_k returns k.
C10_ExtractInverse ==
    (config_loaded /\ extract_call.k \in CacheIds(config_file_cache))
        => extract_call.result = extract_call.k

\* C1: an agent node with loop.enable=true invokes its agent at most
\* max_iterations times whatever the LLM answers, one invocation per
\* iteration, and has returned once max_iterations invocations are made.
C1_AgentLoopBounded ==
    /\ loop.invocations <= protocol.loop.max_iterations
    /\ loop.loop_count = loop.invocations
    /\ loop.invocations = protocol.loop.max_iterations => pc.phase # "loop"

\* the loop ran into its cap under the largest max_iterations
C1_Witness ==
    /\ protocol.loop.max_iterations = MaxIterations
    /\ loop.exit = "cap"
    /\ loop.invocations = MaxIterations
    /\ pc = [node |-> <<"agent", "a">>, phase |-> "route", raised |-> FALSE]

\* C2: a node that returned with _goto_node = t, t another node that the
\* compiler collected as a jump target, is followed by vertex t.
C2_GotoNodeRoutesToTarget ==
    (route.goto_node \in AllNodes(WorkflowEdges(protocol)) \ {route.from_node})
        => (~route.raised /\ route.target = route.goto_node)

\* C6: an agent node that caught an exception, in single-shot mode or in
\* an iteration of its loop, returns with current_step agent_failed:<name>,
\* status "failed", the error text as final_response and as the last
\* message.
C6_NodeErrorMarksNodeFailed ==
    (pc.phase = "route" /\ pc.raised) =>
        /\ state.current_step = Step("agent_failed", pc.node)
        /\ Get(state.node_outputs, pc.node, [status |-> "absent"]).status = "failed"
        /\ state.final_response = <<"Agent", "error">>
        /\ state.messages # <<>>
        /\ state.messages[Len(state.messages)] = AIMessage(<<"Agent", "error">>)

TerminalEvents == {"graph_end", "error", "cancelled"}

\* C3: however a request ends, its events end with exactly one of
\* graph_end, error and cancelled, nothing follows that event, and a
\* graph_start event is the first one.
C3_StreamEndsWithOneTerminalEvent ==
    /\ \A i \in 1..(Len(events) - 1) : events[i].type \notin TerminalEvents
    /\ \A i \in DOMAIN events : events[i].type = "graph_start" => i = 1
    /\ stream.pos = "done" =>
          /\ events # <<>>
          /\ events[Len(events)].type \in TerminalEvents

\* the tool_calls events sent so far
ToolCallsEvents == {i \in DOMAIN events : events[i].type = "tool_calls"}

\* C4: once a single tool call has been streamed up to its finish chunk,
\* in whatever fragments, the last tool_calls event carries the object that
\* the whole argument string spells.
C4_ReassemblyLossless ==
    (/\ stream.pipeline = "process_astream"
     /\ runtime.ncalls = 1
     /\ runtime.phase \in {"results", "final", "ended"})
        => /\ ToolCallsEvents # {}
           /\ LET last == CHOOSE i \in ToolCallsEvents :
                              \A j \in ToolCallsEvents : j <= i
              IN events[last].tool_calls[1].args
                     = DictArgs(PairsFrom(runtime.args, 2))

\* C5: every tool_call_result event comes after a tool_calls event that
\* carries the call it answers.
C5_ToolCallsBeforeResult ==
    \A j \in DOMAIN events :
        events[j].type = "tool_call_result" =>
            \E i \in 1..(j - 1) :
                /\ events[i].type = "tool_calls"
                /\ \E c \in DOMAIN events[i].tool_calls :
                       events[i].tool_calls[c].id = events[j].tool_call_id

\* C7: a request cancelled at a suspension point has cancelled as its last
\* event and no error event, and its generators finish without raising.
C7_CancelledStreamEndsWithCancelled ==
    (stream.pos = "done" /\ stream.cancelled /\ stream.cause = "cancelled") =>
        /\ events # <<>>
        /\ events[Len(events)].type = "cancelled"
        /\ \A i \in DOMAIN events : events[i].type # "error"
        /\ stream.outcome # "raised"

\* C8: a request ended by an exception has an error event with the fields
\* error and graph_id as its last event, and no exception leaves the
\* generators.
C8_ExceptionEndsWithErrorEvent ==
    (stream.cause = "exception" /\ stream.pos \in {"yielded", "done"}) =>
        /\ events # <<>>
        /\ events[Len(events)].type = "error"
        /\ {"error", "graph_id"} \subseteq events[Len(events)].fields
        /\ stream.outcome # "raised"

\* C11: get_flat_messages returns no two human messages a and b, a before b
\* in storage order, such that a.content is a substring of b.content,
\* whatever messages the latest snapshot holds.
C11_NoHumanContentInsideLaterOne ==
    answer.op = "flat" =>
        LET m == IF answer.order = "desc"
                   THEN Reversed(answer.result.messages)
                   ELSE answer.result.messages
        IN \A i, j \in DOMAIN m :
              (i < j /\ m[i].role = "human" /\ m[j].role = "human")
                  => ~Contains(m[j].content, m[i].content)

C13_FinalStepCompleted ==
    (/\ pc.phase = "done"
     /\ ~route.raised
     /\ \A n \in DOMAIN state.node_outputs :
           Get(state.node_outputs[n], "status", "completed") # "failed")
    => /\ state.current_step.tag \in {"completed", "agent_completed"}
       /\ state.messages # <<>>

\* C14: the compiled graph of a validated protocol has exactly one entry
\* point, the sole start node; both endpoints of every declared edge are
\* vertices added to the graph, and an edge leads to its declared target:
\* leaving a vertex whose declared edges carry no condition, with no
\* _goto_node set, the run arrives at the to_node of one of them.
C14_OneEntryAndEdgesLeadToDeclaredTarget ==
    LET nodes == WorkflowNodes(protocol)
        edges == WorkflowEdges(protocol)
        declared == {i \in DOMAIN edges : edges[i].from_node = route.from_node}
    IN ValidateProtocol("flow", FileVersion, nodes, edges, {}) = {} =>
       /\ Cardinality({i \in DOMAIN nodes : nodes[i].type = "start"}) = 1
       /\ NodeType(protocol, FindEntryPoint(protocol)) = "start"
       /\ \A i \in DOMAIN edges :
             {edges[i].from_node, edges[i].to_node} \subseteq NodeNames(protocol)
       /\ (/\ declared # {}
           /\ \A i \in declared : edges[i].condition = ""
           /\ route.goto_node = NoName
           /\ ~route.raised)
          => \E i \in declared : edges[i].to_node = route.target

\* C15: a protocol whose validation error list is not empty is never
\* compiled and registered, on any path that registers a graph.
C15_RegisteredProtocolsAreValid ==
    \A id \in DOMAIN graphs :
        \A i \in PoolIndex :
            ConfigFilePool[i].file = graphs[id].file
                => ValidationErrors(ConfigFilePool[i]) = {}

\* C16: with loop.no_tool_goto = "end" and a first reply without any tool
\* call, the agent node makes exactly one LLM call and no further
\* iteration, and the next node executed after the agent is the workflow's
\* end node.
C16_NoToolGotoEndRunsEndNode ==
    (/\ protocol.topology # "none"
     /\ protocol.loop.enable
     /\ protocol.loop.no_tool_goto = <<"end">>
     /\ loop.exit = "goto"
     /\ route.from_node = <<"agent", "a">>)
    => /\ loop.invocations = 1
       /\ loop.loop_count = 1
       /\ ~route.raised
       /\ route.target = protocol.end_name

\* C17: a completion marker stops the loop at the first iteration whose
\* newest assistant message contains it, whatever the case of its letters,
\* and the recorded loop_count is the number of iterations executed: the
\* loop goes on only past messages without a force-exit keyword, a loop
\* ended by a marker records its iteration count, and the replies "step",
\* "step", "DONE" give exactly three iterations and loop_count 3.
C17_CompletionMarkerStopsLoop ==
    LET n == <<"agent", "a">>
        out == Get(state.node_outputs, n, [status |-> "none"])
        has_marker(content) ==
            \E keyword \in ForceExitKeywords :
                Contains(Lower(content), Lower(keyword))
    IN /\ (pc.node = n /\ pc.phase = "loop" /\ loop.loop_count >= 1)
          => ~has_marker(state.messages[Len(state.messages)].content)
       /\ loop.exit = "completed"
          => /\ out.loop_count = loop.invocations
             /\ out.loop_count = loop.loop_count
       /\ (/\ pc.node = n /\ pc.phase = "route"
           /\ protocol.agent_type = "agent"
           /\ state.messages = <<HumanMessage(UserInput), AIMessage(<<"step">>),
                                 AIMessage(<<"step">>), AIMessage(<<"DONE">>)>>)
          => /\ loop.exit = "completed"
             /\ loop.invocations = 3
             /\ out.loop_count = 3

\* the loop of C17 stopped by "DONE" at its third iteration, below the cap
C17_Witness ==
    /\ pc.node = <<"agent", "a">> /\ pc.phase = "route"
    /\ protocol.loop.max_iterations > 3
    /\ state.messages = <<HumanMessage(UserInput), AIMessage(<<"step">>),
                          AIMessage(<<"step">>), AIMessage(<<"DONE">>)>>
    /\ loop.exit = "completed"
    /\ state.node_outputs[<<"agent", "a">>].loop_count = 3

\* C18: tool-call id normalisation is idempotent: cleaning the result of
\* _clean_tool_call_id again gives that same result, for every id.
C18_CleanIsIdempotent ==
    clean_call.calls = 2 => clean_call.twice = clean_call.once

\* an id whose repetition the cleaner removed, cleaned twice
C18_Witness ==
    /\ clean_call.calls = 2
    /\ clean_call.once # clean_call.raw
    /\ clean_call.twice = clean_call.once

\* C19: put is an idempotent upsert keyed by (thread_id, checkpoint_id): the
\* store never holds two records of one (thread_id, checkpoint_id), and a
\* put that repeats the thread_id, checkpoint_id, snapshot, parent and
\* metadata of the record already stored leaves that record as it was.
C19_PutIsIdempotentUpsert ==
    [][/\ \A d, e \in collection' :
            (d.thread_id = e.thread_id /\ d.checkpoint_id = e.checkpoint_id)
               => d = e
       /\ (answer'.op = "put" /\ put_log' # put_log /\ answer'.stored)
            => \A d \in Find(collection, answer'.thread_id,
                             answer'.checkpoint.id) :
                  (/\ d.checkpoint_data = answer'.checkpoint
                   /\ d.parent_checkpoint_id = answer'.parent
                   /\ d.metadata = answer'.metadata)
                     => d \in collection']_vars

\* the checkpoint ids of a thread in the order their first put stored them
RECURSIVE AppendOrder(_, _)
AppendOrder(log, thread_id) ==
    IF log = <<>> THEN <<>>
    ELSE LET before == AppendOrder(SubSeq(log, 1, Len(log) - 1), thread_id)
             last == log[Len(log)]
         IN IF /\ last.stored
               /\ last.thread_id = thread_id
               /\ \A i \in DOMAIN before : before[i] # last.checkpoint_id
              THEN Append(before, last.checkpoint_id)
              ELSE before

\* C20: after any sequence of puts on a thread, list(thread_id) yields the
\* thread's snapshots from the last appended to the first appended, and
\* get_tuple without a checkpoint_id returns the last appended one.
C20_ListAndLatestFollowAppendOrder ==
    LET appended == AppendOrder(put_log, answer.thread_id)
    IN /\ (/\ answer.op = "list"
           /\ answer.connected
           /\ answer.thread_id # NoId
           /\ answer.limit = 0
           /\ answer.before = None)
            => [i \in DOMAIN answer.yielded |->
                   answer.yielded[i].checkpoint.id] = Reversed(appended)
       /\ (/\ answer.op = "get_tuple"
           /\ answer.connected
           /\ answer.thread_id # NoId
           /\ answer.checkpoint_id = None
           /\ appended # <<>>)
            => /\ answer.found
               /\ answer.tuple.checkpoint.id = appended[Len(appended)]

\* C21: checkpointer attachment at compile time: a registered graph whose
\* protocol enables memory with provider "memory" has an in-process
\* checkpointer, one with provider "mongodb" has the Mongo checkpointer, and
\* a protocol that enables memory with any other provider is never
\* compiled and registered.
C21_CheckpointerFollowsProvider ==
    \A id \in DOMAIN graphs :
        LET f == ConfigFilePool[CHOOSE i \in PoolIndex :
                                   ConfigFilePool[i].file = graphs[id].file]
        IN f.enabled =>
              /\ f.provider = "memory"
                    => graphs[id].checkpointer \in {"MemorySaver",
                                                    "MemoryCheckpointer"}
              /\ f.provider = "mongodb"
                    => graphs[id].checkpointer = "MongoDBCheckpointer"
              /\ f.provider \in {"memory", "mongodb"}

\* C22: persistence errors never abort a request: a history read
\* (get_flat_messages, get_history_messages, get_thread_list) during which
\* the store fails raises nothing and returns an empty page, and a put
\* during which the store fails raises nothing, returns the config it was
\* given and leaves the store as it was.
C22_PersistenceErrorsAreSwallowed ==
    [][(answer'.op \in {"put", "flat", "history", "threads"}
          /\ (~answer'.connected \/ answer'.raises))
        => /\ ~answer'.raised
           /\ answer'.op = "put"
                => /\ ~answer'.stored
                   /\ answer'.checkpoint_id = answer'.parent
                   /\ collection' = collection
           /\ answer'.op \in {"flat", "history"}
                => /\ answer'.result.messages = <<>>
                   /\ answer'.result.total = 0
                   /\ answer'.result.total_pages = 0
           /\ answer'.op = "threads"
                => /\ answer'.result.threads = <<>>
                   /\ answer'.result.total = 0
                   /\ answer'.result.total_pages = 0]_vars

\* the store holds a thread's checkpoint and a read of that thread, during
\* which the store call raised, came back with the empty page
C22_Witness ==
    /\ answer.op \in {"flat", "history"}
    /\ answer.connected /\ answer.raises /\ ~answer.raised
    /\ answer.result.messages = <<>>
    /\ Find(collection, answer.result.thread_id, None) # {}

\* C23: the state of a thread is owned by one running request at a time:
\* whenever a request writes to the state of a thread, it is a request of
\* that thread, and no other request running at that moment has the same
\* thread_id.
C23_ThreadOwnedByOneRunningRequest ==
    [][\A thread_id \in DOMAIN storage' :
          Get(storage, thread_id, <<>>) # storage'[thread_id]
            => LET writer == storage'[thread_id][Len(storage'[thread_id])].request
               IN /\ requests[writer].thread_id = thread_id
                  /\ \A other \in DOMAIN requests \ {writer} :
                        requests[other].pos = "running"
                          => requests[other].thread_id # thread_id]_vars

\* C24: compiled graphs are immutable after compilation: whatever was
\* compiled or registered afterwards with the same builder, the branch of
\* a condition node of a registered graph decides as the paths of the
\* graph's own protocol say.
C24_CompiledGraphRoutesByItsOwnPaths ==
    ("graph_id" \in DOMAIN route)
      => LET p == graphs[route.graph_id].protocol
             edges == WorkflowEdges(p)
             n == route.from_node
             s == ConditionNodeState(InitialState, n, route.condition_results)
             own == MasterConditionFunc(s, n,
                                        ConditionalPaths(edges, n, Len(edges)))
             path_map == Branches(edges, n, Len(edges))[1].path_map
         IN route.target = IF own.result \in path_map THEN own.result
                           ELSE NoName

\* C25: config-registry failures are returned: _ensure_graph_loaded for an
\* id that no readable file of the directory carries, or whose file fails
\* to parse, to validate or to build, returns the error result.
C25_EnsureLoadedReturnsErrors ==
    last_call.op = "ensure"
      => LET files == {i \in config_dir :
                          /\ ConfigFilePool[i].has_id
                          /\ ConfigFilePool[i].id = last_call.id}
         IN (\/ files = {}
             \/ \E i \in files : \/ ~ConfigFilePool[i].builds
                                  \/ ValidationErrors(ConfigFilePool[i]) # {})
               => ~last_call.ok

\* the schema versions the validator is said to know
KnownSchemaVersions == {"1.0.0"}

\* the structural rules a parsed protocol violates
StructuralViolations(parsed) ==
    LET nodes == parsed.nodes
        edges == parsed.edges
        names == {nodes[i].name : i \in DOMAIN nodes}
    IN (IF Cardinality({i \in DOMAIN nodes : nodes[i].type = "start"}) # 1
          THEN {"start"} ELSE {})
       \cup (IF {i \in DOMAIN nodes : nodes[i].type = "end"} = {}
               THEN {"end"} ELSE {})
       \cup (IF \E i \in DOMAIN edges :
                    edges[i].from_node \notin names \/ edges[i].to_node \notin names
               THEN {"endpoint"} ELSE {})
       \cup (IF \E i \in DOMAIN nodes :
                    /\ nodes[i].type = "agent"
                    /\ nodes[i].agent_ref # NoName
                    /\ nodes[i].agent_ref \notin parsed.agents
               THEN {"agent_ref"} ELSE {})
       \cup (IF parsed.schema_version \notin KnownSchemaVersions
               THEN {"schema_version"} ELSE {})

\* C26: the validator returns a non-empty error list for every protocol
\* that violates a structural rule: not exactly one start node, no end node,
\* an edge endpoint that names no node, an agent_ref that names no agent, a
\* schema_version outside the known set.
C26_ValidatorReportsEveryViolation ==
    validate_call.called
      => (StructuralViolations(validate_call.parsed) # {}
            => validate_call.errors # {})

\* the numbers k of 1..3 for which the last k parts of thread_id, joined,
\* are a known config id
SuffixMatches(thread_id, ids) ==
    {k \in 1..3 : /\ k <= Len(thread_id)
                  /\ SubSeq(thread_id, Len(thread_id) - k + 1, Len(thread_id)) \in ids}

\* C27: when more than one known config id suffix-matches the thread id,
\* the extraction returns the longest of them (three parts before two, two
\* before one).
C27_ExtractReturnsLongestMatch ==
    LET t == extract_call.thread_id
        matches == SuffixMatches(t, CacheIds(config_file_cache))
        longest == CHOOSE k \in matches : \A j \in matches : j <= k
    IN (Len(t) >= 3 /\ Cardinality(matches) > 1)
         => extract_call.result = SubSeq(t, Len(t) - longest + 1, Len(t))

\* C28: a routing decision taken from a source node with condition edges
\* leads to the target of the first condition edge, in declaration order,
\* whose label is true in the source node's condition_results, whatever the
\* number of condition edges and whichever of them is true; to END when no
\* label is true.
C28_RoutesToFirstTrueConditionEdge ==
    LET edges == WorkflowEdges(protocol)
        declared == {i \in DOMAIN edges : /\ edges[i].from_node = route.from_node
                                          /\ edges[i].condition # ""}
        node_output == Get(state.node_outputs, route.from_node, [none |-> TRUE])
        condition_results == Get(node_output, "condition_results", << >>)
        true == {i \in declared :
                    /\ edges[i].condition \in DOMAIN condition_results
                    /\ condition_results[edges[i].condition]}
    IN (route.from_node # NoName /\ declared # {})
         => /\ ~route.raised
            /\ route.target =
                  IF true = {} THEN END
                  ELSE edges[CHOOSE i \in true : \A j \in true : i <= j].to_node

\* C29: _goto_node is consumed by the router: a routing decision taken
\* while the token is set leaves the state with the token cleared, so the
\* token is gone before the next node runs and cannot reach a later routing
\* decision.
C29_GotoNodeConsumedByRouter ==
    [][(pc.phase = "route" /\ state.goto_node # NoName)
         => state'.goto_node = NoName]_vars

\* the event ends the assembly: it carries tool_calls with a non-empty args
\* dict, or no tool_call_chunks and finish_reason "tool_calls"
EndsAssembly(esm) ==
    \/ \E i \in DOMAIN esm.tool_calls : esm.tool_calls[i].args.pairs # {}
    \/ esm.tool_call_chunks = <<>> /\ esm.finish_reason = "tool_calls"

\* C30: while Assembling, every item astream can deliver next whose event
\* carries tool_calls with a non-empty args dict, or no tool_call_chunks
\* and finish_reason "tool_calls", makes process_astream emit exactly one
\* tool_calls event, with one call that has the id and the name seized and
\* the parse of the accumulated string as args, and leaves the assembler
\* Idle with id, name and accumulated args reset.
C30_AssemblingToIdle ==
    (stream.pipeline = "process_astream" /\ assembler.assembling) =>
        \A d \in NextMessages(runtime) :
            LET esm == EventStreamMessage(d.message)
                r == ProcessMessage(assembler, d.message)
            IN (d.message.kind = "AIMessageChunk" /\ EndsAssembly(esm)) =>
                  /\ Len(r.emit) = 1
                  /\ r.emit[1].type = "tool_calls"
                  /\ Len(r.emit[1].tool_calls) = 1
                  /\ r.emit[1].tool_calls[1].id = assembler.current_tool_call.id
                  /\ r.emit[1].tool_calls[1].name = assembler.current_tool_call.name
                  /\ r.emit[1].tool_calls[1].args
                        = LoadAccumulatedArgs(assembler.accumulated_args)
                  /\ ~r.assembler.assembling
                  /\ r.assembler.current_tool_call.id = NoCallId
                  /\ r.assembler.current_tool_call.name = ""
                  /\ r.assembler.accumulated_args = <<>>

\* a call assembled from several chunks has just been sent on the finish
\* chunk and the assembler is Idle again
C30_Witness ==
    /\ stream.pipeline = "process_astream"
    /\ stream.pos = "yielded"
    /\ runtime.phase = "results"
    /\ events # <<>>
    /\ events[Len(events)].type = "tool_calls"
    /\ events[Len(events)].fields = MessageFields \cup {"tool_calls", "finish_reason"}
    /\ events[Len(events)].tool_calls[1].args = DictArgs(PairsFrom(runtime.args, 2))
    /\ assembler = ResetAssembler

C32_CapReturnsMostRecentContent ==
    LET n == <<"agent", "a">>
        out == Get(state.node_outputs, n, [status |-> "none"])
    IN (pc.node = n /\ pc.phase = "route" /\ loop.exit = "cap") =>
          /\ state.final_response = state.messages[Len(state.messages)].content
          /\ out.outputs = state.messages[Len(state.messages)].content
          /\ out.loop_count = protocol.loop.max_iterations

\* The place of an SSE event of process_astream in the order in which the
\* runtime produces its sources: 0 the text and the interrupts before the
\* tool calls, 1 and 2 the chunks of the first and of the second call, 3
\* the chunk with finish_reason "tool_calls", 4 and 5 the ToolMessages of
\* the two calls, 6 the closing text, 7 the end of the stream.  A raw
\* tool_call_chunks event carries no id: it is of the first or the second
\* call.
EarliestSource(e) ==
    CASE e.type = "interrupt" -> 0
      [] e.type = "message_chunk" ->
           IF "finish_reason" \notin e.fields THEN 0
           ELSE IF "content" \notin e.fields THEN 3 ELSE 6
      [] e.type = "tool_calls" -> IF e.tool_calls[1].id = CallId(2) THEN 2 ELSE 1
      [] e.type = "tool_call_chunks" -> 1
      [] e.type = "tool_call_result" -> IF e.tool_call_id = CallId(2) THEN 5 ELSE 4
      [] OTHER -> 7
LatestSource(e) ==
    IF e.type = "tool_call_chunks" THEN 2
    ELSE IF e.type = "tool_calls" /\ "finish_reason" \in e.fields
           /\ "tool_call_chunks" \notin e.fields THEN 3
    ELSE EarliestSource(e)

C34_ThreadListConfigIdIsExtracted ==
    answer.op = "threads" =>
        \A i \in DOMAIN answer.result.threads :
            answer.result.threads[i].config_id
              = ExtractConfigId(answer.result.threads[i].thread_id,
                                CacheIds(ScanConfigDir(config_dir)))

\* C35: router safety.  Whatever _goto_node and condition_results are, the
\* function installed on a source node returns a key of the path map
\* registered for that source, so the routing decision raises nothing and
\* arrives at a registered target; a _goto_node that names no node falls
\* back to the declared target.
C35_RouterReturnsRegisteredTarget ==
    LET edges == WorkflowEdges(protocol)
        branches == Branches(edges, route.from_node, Len(edges))
        registered == {IF k = SKIP THEN END ELSE k : k \in branches[1].path_map}
    IN (route.from_node # NoName /\ branches # <<>>) =>
          /\ ~route.raised
          /\ route.target \in registered
          /\ (/\ branches[1].kind = "dynamic"
              /\ route.goto_node # NoName
              /\ route.goto_node \notin AllNodes(edges) \cup {<<"end">>})
                => route.target = branches[1].default_to_node

\* C36: no assembled tool call is lost.  When process_astream ends normally
\* the assembler is Idle, so the tool call whose assembly was started has
\* been sent in a tool_calls event before the end of the stream; it is
\* Idle as well once the agent step is over, before a later step can start
\* an assembly.
C36_NoAssembledToolCallLost ==
    stream.pipeline = "process_astream" =>
        /\ (stream.pos = "done" /\ stream.cause = "completed")
               => ~assembler.assembling
        /\ runtime.phase \in {"results", "final", "ended"}
               => /\ ~assembler.assembling
                  /\ runtime.ncalls > 0 => ToolCallsEvents # {}

\* the calls carried by the tool_calls events sent so far
DeliveredCalls ==
    UNION {{events[i].tool_calls[c] : c \in DOMAIN events[i].tool_calls} :
              i \in ToolCallsEvents}

\* C37: chunks of different tool calls are never merged.  Once an AI message
\* with two tool calls has been streamed up to its finish chunk, each of the
\* two calls has been delivered with its own id, its own name and the
\* object its own argument string spells, and no delivered call carries
\* anything else.
C37_ToolCallsNeverMerged ==
    (/\ stream.pipeline = "process_astream"
     /\ runtime.ncalls = 2
     /\ runtime.phase \in {"results", "final"})
        => DeliveredCalls
              = {[id |-> CallId(i), name |-> CallName(i),
                  args |-> DictArgs(PairsFrom(CallArgs(runtime, i), 2))] :
                    i \in 1..2}

\* C38: the stream never sends an incomplete tool call.  Every call carried
\* by a tool_calls event sent so far has a non-empty name and args that are
\* not the empty dict, whatever chunks and finish events were delivered.
C38_NoIncompleteToolCallSent ==
    \A c \in DeliveredCalls :
        /\ c.name # ""
        /\ c.args # DictArgs({})

\* role and content of the messages of a page
RoleAndContent(messages) ==
    [i \in DOMAIN messages |->
        [role |-> messages[i].role, content |-> messages[i].content]]

\* the pages page..total_pages of get_flat_messages over one snapshot, one
\* after the other
RECURSIVE ConcatPages(_, _, _, _, _)
ConcatPages(latest_checkpoint, page, total_pages, page_size, order) ==
    IF page > total_pages THEN <<>>
    ELSE FlatMessages(latest_checkpoint, FlatThread, page, page_size,
                      order).messages
         \o ConcatPages(latest_checkpoint, page + 1, total_pages, page_size,
                        order)

\* C39: pagination of get_flat_messages over a fixed latest snapshot.  For
\* the page and page_size of the call and that snapshot, total_pages is
\* ceil(total / page_size), the page holds at most page_size messages, the
\* pages 1..total_pages one after the other are exactly the ordered
\* deduplicated message list, and every page beyond total_pages is empty.
C39_PaginationPartitionsSnapshot ==
    (answer.op = "flat" /\ answer.connected) =>
        \A d \in collection :
            LET r == answer.result
                formatted == FormatMessages(d.checkpoint_data.channel_values.messages)
                ordered == IF answer.order = "desc" THEN Reversed(formatted)
                           ELSE formatted
            IN /\ r.total = Len(ordered)
               /\ r.total_pages * r.page_size >= r.total
               /\ (r.total_pages - 1) * r.page_size < r.total
               /\ r.total_pages >= 0
               /\ Len(r.messages) <= r.page_size
               /\ r.page > r.total_pages => r.messages = <<>>
               /\ \A k \in DOMAIN r.messages :
                     RoleAndContent(r.messages)[k]
                        = RoleAndContent(ordered)[(r.page - 1) * r.page_size + k]
               /\ RoleAndContent(ConcatPages(d, 1, r.total_pages, r.page_size,
                                             answer.order))
                     = RoleAndContent(ordered)
               /\ \A beyond \in (r.total_pages + 1)..(r.total_pages + 2) :
                     FlatMessages(d, FlatThread, beyond, r.page_size,
                                  answer.order).messages = <<>>

\* the second and last page of three messages, two to a page
C39_Witness ==
    /\ answer.op = "flat" /\ answer.connected
    /\ answer.result.page = 2 /\ answer.result.page_size = 2
    /\ answer.result.total = 3 /\ answer.result.total_pages = 2
    /\ Len(answer.result.messages) = 1

\* out is in_ with some elements left out, the others in their order
RECURSIVE IsSubsequence(_, _)
IsSubsequence(out, in_) ==
    IF out = <<>> THEN TRUE
    ELSE IF in_ = <<>> THEN FALSE
    ELSE IF Head(out) = Head(in_) THEN IsSubsequence(Tail(out), Tail(in_))
    ELSE IsSubsequence(out, Tail(in_))

NonHuman(message) == message.role # "human"

\* C40: deduplication only removes human messages and never reorders.  The
\* messages _format_messages returns for a snapshot (read through
\* get_flat_messages with order "asc" and a page that holds them all) are
\* the snapshot's messages with some left out and the others in their
\* order, and the AI, system and tool messages among them are those of the
\* snapshot, all of them and in the same order.
C40_DedupRemovesOnlyHumanMessages ==
    (/\ answer.op = "flat" /\ answer.connected /\ answer.order = "asc"
     /\ answer.result.page = 1 /\ answer.result.page_size = 10)
    => \A d \in collection :
          LET m == d.checkpoint_data.channel_values.messages
              input == [i \in DOMAIN m |->
                          [role |-> m[i].type, content |-> m[i].content]]
              output == RoleAndContent(answer.result.messages)
          IN /\ answer.result.total = Len(output)
             /\ IsSubsequence(output, input)
             /\ SelectSeq(output, NonHuman) = SelectSeq(input, NonHuman)

\* of [H("a"), System("a"), H("ab")] the second human message is left out
\* and the system message is kept
C40_Witness ==
    /\ answer.op = "flat" /\ answer.connected /\ answer.order = "asc"
    /\ answer.result.page = 1 /\ answer.result.page_size = 10
    /\ \E d \in collection :
          d.checkpoint_data.channel_values.messages
             = <<HumanMessage(<<"a">>), SystemMessage(<<"a">>),
                 HumanMessage(<<"a", "b">>)>>
    /\ RoleAndContent(answer.result.messages)
          = <<[role |-> "human", content |-> <<"a">>],
              [role |-> "system", content |-> <<"a">>]>>

====
